---------------------------- MODULE Spec2Model ----------------------------
(***************************************************************************)
(* A state-machine model of the minicdcl SAT solver (core/Solver.cc,       *)
(* core/Solver.h).  The solver object is the state; newVar, addClause and  *)
(* solve are the public operations.  solve is split at the iterations of   *)
(* the loop of search (one action per iteration) and at the return of      *)
(* search to solve_, which are the only places where the asynchronous      *)
(* interrupt flag can be observed to change.                               *)
(*                                                                         *)
(* Indices: variables are 0..nVars-1 as in the source; the trail, the      *)
(* watch lists, the clause lists and the literals of a clause are TLA+     *)
(* sequences, so position i of the source is position i+1 here.  qhead     *)
(* and the entries of trail_lim keep the source's values (numbers of       *)
(* trail entries).                                                         *)
(***************************************************************************)
EXTENDS Integers, Sequences, FiniteSets, TLC

\* ------------------------------------------------------------------ bounds
\* Spec, SpecBudget, FairSpec: clauses drawn from Pool, over MaxVars variables
MaxVars == 4
\* Spec: numbers of addClause calls and of solve calls
MaxAdds == 5
MaxSolves == 2
\* SpecBudget and FairSpec: numbers of addClause calls and of solve calls
BudgetAdds == 4
BudgetSolves == 1
\* SpecAdd: every clause of at most AddLen literals over AddVars variables
AddVars == 3
AddAdds == 3
AddLen == 3
\* The capacity of lbdQueue.  The source sets 50 (Solver.cc:587); the model scales the
\* window down so that a full queue, and with it a restart, occurs on small formulas.
LbdQueueSize == 1
\* SpecReduce: the clauses of ReducePool over ReduceVars variables, solved once.  The
\* first call of reduceDB comes after ReduceFirst to ReduceLast conflicts: nextReduceDB
\* is a public field (Solver.h:74) that the caller sets; its initial value in the
\* source is FirstReduceDB, which no formula of this size reaches.
ReduceVars == 6
ReduceFirst == 2
ReduceLast == 4
\* A search takes no step once it has met MaxConflicts conflicts: the activities of the
\* source are doubles, those of the model exact integers that grow with each conflict.
MaxConflicts == 5
\* The greatest value of FLAG, after which FLAG++ gives 0.  FLAG is an unsigned int
\* (Solver.h:153): the source's greatest value is 2^32 - 1, scaled down here so that a
\* sequence of calls of computeLBD reaches it; it is above MaxConflicts, so that no run
\* of search does.
FlagMax == 7
\* SpecLBD: the clauses of LbdPool over LbdVars variables, and calls of computeLBD on
\* clauses of at most LbdLen literals of the trail.
LbdVars == 3
LbdLen == 2

\* --------------------------------------------------------- program constants
TrailQueueSize == 5000
BlockRestartMinConflicts == 10000
FirstReduceDB == 2000
\* var_decay = 0.95 = 19/20 and clause_decay = 0.999 = 999/1000, as exact fractions
var_decay_num == 19
var_decay_den == 20
clause_decay_num == 999
clause_decay_den == 1000
\* solve_ calls search(rest_base * 32) (Solver.cc:119); the factor 32 is scaled down to
\* RestartUnit, so that a search of MaxConflicts conflicts at most can meet more
\* conflicts than its argument.
RestartUnit == 1

\* The width of int in the model: INT_MAX is 2^(IntBits - 1) - 1.  The source's int has
\* 32 bits; the width is scaled down so that the inputs of luby are all enumerated.
IntBits == 8

\* The denominator of the second value given to garbage_frac, 1 / GcFracDen.
GcFracDen == 10

\* garbage_frac = 0.20 = 1/5
garbage_frac_num == 1
garbage_frac_den == 5
\* A fraction is the pair of its numerator and its denominator.
opt_garbage_frac == <<garbage_frac_num, garbage_frac_den>>

\* ------------------------------------------------ literals, lbool, clauses
l_True == "True"
l_False == "False"
l_Undef == "Undef"

lit_Undef == -2
CRef_Undef == 0

mkLit(v, sgn) == 2 * v + (IF sgn THEN 1 ELSE 0)
var(p) == p \div 2
sign(p) == (p % 2) = 1
Neg(p) == IF p % 2 = 0 THEN p + 1 ELSE p - 1

lbool(b) == IF b THEN l_True ELSE l_False

mkVarData(cr, l) == [reason |-> cr, level |-> l]

Watcher(cr, p) == [cref |-> cr, blocker |-> p]

Min(S) == CHOOSE x \in S : \A y \in S : x <= y
Max(S) == CHOOSE x \in S : \A y \in S : x >= y

SeqToSet(s) == {s[i] : i \in 1..Len(s)}

\* --------------------------------------------------------------- the state
VARIABLES
    ok, clauses, learnts, ca, watches, dirty, assigns, polarity, trail, trail_lim,
    vardata, qhead, order_heap, activity, var_inc, cla_inc, seen, levelTagged, FLAG,
    lbdQueue, trailQueue, sumLBD, nextReduceDB, nb_reducedb,
    starts, decisions, propagations, conflicts,
    conflict_budget, propagation_budget, asynch_interrupt, model,
    pc, status, curr_restarts, nof_conflicts, nbConflictsInCurrentRun,
    ret, added, nAdds, nSolves, atCall, bound, err

vars == <<ok, clauses, learnts, ca, watches, dirty, assigns, polarity, trail, trail_lim,
          vardata, qhead, order_heap, activity, var_inc, cla_inc, seen, levelTagged, FLAG,
          lbdQueue, trailQueue, sumLBD, nextReduceDB, nb_reducedb,
          starts, decisions, propagations, conflicts,
          conflict_budget, propagation_budget, asynch_interrupt, model,
          pc, status, curr_restarts, nof_conflicts, nbConflictsInCurrentRun,
          ret, added, nAdds, nSolves, atCall, bound, err>>

\* The fields of the solver that the internal methods read and write, as one record;
\* confl carries the value returned by propagate.
St ==
    [ok |-> ok, clauses |-> clauses, learnts |-> learnts, ca |-> ca,
     watches |-> watches, dirty |-> dirty, assigns |-> assigns, polarity |-> polarity,
     trail |-> trail, trail_lim |-> trail_lim, vardata |-> vardata,
     qhead |-> qhead, order_heap |-> order_heap, activity |-> activity,
     var_inc |-> var_inc, cla_inc |-> cla_inc, seen |-> seen,
     levelTagged |-> levelTagged, FLAG |-> FLAG,
     lbdQueue |-> lbdQueue, trailQueue |-> trailQueue, sumLBD |-> sumLBD,
     nextReduceDB |-> nextReduceDB, nb_reducedb |-> nb_reducedb,
     decisions |-> decisions, propagations |-> propagations,
     conflicts |-> conflicts, confl |-> CRef_Undef, err |-> err, heap |-> bound.heap,
     garbage_frac |-> bound.garbage_frac]

Commit(S) ==
    /\ ok' = S.ok
    /\ clauses' = S.clauses
    /\ learnts' = S.learnts
    /\ ca' = S.ca
    /\ watches' = S.watches
    /\ dirty' = S.dirty
    /\ assigns' = S.assigns
    /\ polarity' = S.polarity
    /\ trail' = S.trail
    /\ trail_lim' = S.trail_lim
    /\ vardata' = S.vardata
    /\ qhead' = S.qhead
    /\ order_heap' = S.order_heap
    /\ activity' = S.activity
    /\ var_inc' = S.var_inc
    /\ cla_inc' = S.cla_inc
    /\ seen' = S.seen
    /\ levelTagged' = S.levelTagged
    /\ FLAG' = S.FLAG
    /\ lbdQueue' = S.lbdQueue
    /\ trailQueue' = S.trailQueue
    /\ sumLBD' = S.sumLBD
    /\ nextReduceDB' = S.nextReduceDB
    /\ nb_reducedb' = S.nb_reducedb
    /\ decisions' = S.decisions
    /\ propagations' = S.propagations
    /\ conflicts' = S.conflicts
    /\ err' = S.err

nVars(S) == Cardinality(DOMAIN S.vardata)
decisionLevel(S) == Len(S.trail_lim)
reason(S, x) == S.vardata[x].reason
level(S, x) == S.vardata[x].level

\* value(Lit): assigns[var(p)] ^ sign(p)
value(S, p) ==
    IF S.assigns[var(p)] = l_Undef THEN l_Undef
    ELSE lbool((S.assigns[var(p)] = l_True) # sign(p))

\* ------------------------------------------- enqueue, propagate, backtrack
\* A faulty variant: the literal is put at the front of the trail.
uncheckedEnqueue_atFront(S, p, from) ==
    [S EXCEPT !.err = @ \/ (value(S, p) # l_Undef),
              !.assigns[var(p)] = lbool(~sign(p)),
              !.vardata[var(p)] = mkVarData(from, decisionLevel(S)),
              !.trail = <<p>> \o @]

\* void Solver::uncheckedEnqueue(Lit p, CRef from)
\* A faulty variant: the level stored is one above the decision level.
uncheckedEnqueue_levelAbove(S, p, from) ==
    [S EXCEPT !.err = @ \/ (value(S, p) # l_Undef),
              !.assigns[var(p)] = lbool(~sign(p)),
              !.vardata[var(p)] = mkVarData(from, decisionLevel(S) + 1),
              !.trail = Append(@, p)]

uncheckedEnqueue(S, p, from) ==
    [S EXCEPT !.err = @ \/ (value(S, p) # l_Undef),
              !.assigns[var(p)] = lbool(~sign(p)),
              !.vardata[var(p)] = mkVarData(from, decisionLevel(S)),
              !.trail = Append(@, p)]

\* The inner loop of propagate over ws = watches[p]: i is the read position, kept
\* the watchers written back so far (the source's j).
RECURSIVE propagateWatchers(_, _, _, _, _)
\* A faulty variant: a clause with no new watch is taken for a conflict unless its
\* first literal is true, so also when that literal is unassigned.
propagateWatchers_conflictUnlessTrue(S, p, ws, i, kept) ==
    IF i > Len(ws) THEN [S EXCEPT !.watches[p] = kept]
    ELSE
      LET w == ws[i]
          blocker == w.blocker
      IN
      IF value(S, blocker) = l_True
      THEN propagateWatchers(S, p, ws, i + 1, Append(kept, w))
      ELSE
        LET cr == w.cref
            c0 == S.ca[cr].lits
            false_lit == Neg(p)
            c == IF c0[1] = false_lit
                 THEN [c0 EXCEPT ![1] = c0[2], ![2] = false_lit]
                 ELSE c0
            first == c[1]
            nw == Watcher(cr, first)
            S1 == [S EXCEPT !.ca[cr].lits = c,
                            !.err = @ \/ (c[2] # false_lit)]
            ks == {k \in 3..Len(c) : value(S, c[k]) # l_False}
        IN
        IF first # blocker /\ value(S, first) = l_True
        THEN propagateWatchers(S1, p, ws, i + 1, Append(kept, nw))
        ELSE IF ks # {}
        THEN
          LET k == Min(ks)
              S2 == [S1 EXCEPT !.ca[cr].lits = [c EXCEPT ![2] = c[k], ![k] = false_lit],
                               !.watches[Neg(c[k])] = Append(@, nw)]
          IN propagateWatchers(S2, p, ws, i + 1, kept)
        ELSE [S1 EXCEPT !.confl = cr,
                        !.qhead = Len(S.trail),
                        !.watches[p] = kept \o <<nw>> \o SubSeq(ws, i + 1, Len(ws))]

propagateWatchers(S, p, ws, i, kept) ==
    IF i > Len(ws) THEN [S EXCEPT !.watches[p] = kept]
    ELSE
      LET w == ws[i]
          blocker == w.blocker
      IN
      IF value(S, blocker) = l_True
      THEN propagateWatchers(S, p, ws, i + 1, Append(kept, w))
      ELSE
        LET cr == w.cref
            c0 == S.ca[cr].lits
            false_lit == Neg(p)
            c == IF c0[1] = false_lit
                 THEN [c0 EXCEPT ![1] = c0[2], ![2] = false_lit]
                 ELSE c0
            first == c[1]
            nw == Watcher(cr, first)
            S1 == [S EXCEPT !.ca[cr].lits = c,
                            !.err = @ \/ (c[2] # false_lit)]
            ks == {k \in 3..Len(c) : value(S, c[k]) # l_False}
        IN
        IF first # blocker /\ value(S, first) = l_True
        THEN propagateWatchers(S1, p, ws, i + 1, Append(kept, nw))
        ELSE IF ks # {}
        THEN
          LET k == Min(ks)
              S2 == [S1 EXCEPT !.ca[cr].lits = [c EXCEPT ![2] = c[k], ![k] = false_lit],
                               !.watches[Neg(c[k])] = Append(@, nw)]
          IN propagateWatchers(S2, p, ws, i + 1, kept)
        ELSE IF value(S, first) = l_False
        THEN [S1 EXCEPT !.confl = cr,
                        !.qhead = Len(S.trail),
                        !.watches[p] = kept \o <<nw>> \o SubSeq(ws, i + 1, Len(ws))]
        ELSE propagateWatchers(uncheckedEnqueue(S1, first, cr), p, ws, i + 1,
                               Append(kept, nw))

RECURSIVE propagateLoop(_)
\* A faulty variant: the watchers of one literal of the trail are visited, no more.
propagateLoop_once(S) ==
    IF S.qhead >= Len(S.trail) THEN S
    ELSE
      LET p == S.trail[S.qhead + 1]
          S1 == [S EXCEPT !.qhead = @ + 1, !.propagations = @ + 1]
      IN propagateWatchers(S1, p, S1.watches[p], 1, <<>>)

\* The outer loop of propagate, over the literals of the trail from qhead on.
propagateLoop(S) ==
    IF S.qhead >= Len(S.trail) THEN S
    ELSE
      LET p == S.trail[S.qhead + 1]
          S1 == [S EXCEPT !.qhead = @ + 1, !.propagations = @ + 1]
      IN propagateLoop(propagateWatchers(S1, p, S1.watches[p], 1, <<>>))

\* OccLists::cleanAll: every smudged list loses the watchers of clauses marked deleted.
cleanAll(S) ==
    [S EXCEPT !.watches = [p \in DOMAIN @ |->
                             IF p \in S.dirty
                             THEN SelectSeq(@[p], LAMBDA w : S.ca[w.cref].mark # 1)
                             ELSE @[p]],
              !.dirty = {}]

propagate(S) == propagateLoop(cleanAll([S EXCEPT !.confl = CRef_Undef]))

\* ------------------------------------------------- variables and clauses
RECURSIVE insertSorted(_, _)
insertSorted(s, x) ==
    IF s = <<>> THEN <<x>>
    ELSE IF x <= Head(s) THEN <<x>> \o s
    ELSE <<Head(s)>> \o insertSorted(Tail(s), x)

RECURSIVE sort(_)
sort(ps) == IF ps = <<>> THEN <<>> ELSE insertSorted(sort(Tail(ps)), Head(ps))

alloc(S, ps, learnt) ==
    [S EXCEPT !.ca = Append(@, [lits |-> ps, learnt |-> learnt, mark |-> 0,
                                lbd |-> 0, activity |-> <<>>])]

\* A faulty variant: the second watcher goes to the list of the first literal too.
attachClause_sameList(S, cr) ==
    LET c == S.ca[cr].lits
    IN [S EXCEPT !.watches[Neg(c[1])] = Append(Append(@, Watcher(cr, c[2])), Watcher(cr, c[1])),
                 !.err = @ \/ (Len(c) <= 1)]

\* void Solver::attachClause(CRef cr)
attachClause(S, cr) ==
    LET c == S.ca[cr].lits
    IN [S EXCEPT !.watches[Neg(c[1])] = Append(@, Watcher(cr, c[2])),
                 !.watches[Neg(c[2])] = Append(@, Watcher(cr, c[1])),
                 !.err = @ \/ (Len(c) <= 1)]

\* The simplification loop of addClause_ over the sorted ps: returns the literals
\* kept (the source's ps[0..j-1]) and whether the loop returned true early.
RECURSIVE addClauseScan(_, _, _, _, _)
\* A faulty variant: a literal that is false is kept.
addClauseScan_keepFalse(S, ps, i, p, kept) ==
    IF i > Len(ps) THEN [sat |-> FALSE, ps |-> kept]
    ELSE IF value(S, ps[i]) = l_True \/ ps[i] = Neg(p)
    THEN [sat |-> TRUE, ps |-> kept]
    ELSE IF ps[i] # p
    THEN addClauseScan(S, ps, i + 1, ps[i], Append(kept, ps[i]))
    ELSE addClauseScan(S, ps, i + 1, p, kept)

\* A faulty variant: a literal equal to the one before it is kept.
addClauseScan_keepDuplicates(S, ps, i, p, kept) ==
    IF i > Len(ps) THEN [sat |-> FALSE, ps |-> kept]
    ELSE IF value(S, ps[i]) = l_True \/ ps[i] = Neg(p)
    THEN [sat |-> TRUE, ps |-> kept]
    ELSE IF value(S, ps[i]) # l_False
    THEN addClauseScan(S, ps, i + 1, ps[i], Append(kept, ps[i]))
    ELSE addClauseScan(S, ps, i + 1, p, kept)

\* A faulty variant: the test for a literal next to its negation is left out.
addClauseScan_noTautology(S, ps, i, p, kept) ==
    IF i > Len(ps) THEN [sat |-> FALSE, ps |-> kept]
    ELSE IF value(S, ps[i]) = l_True
    THEN [sat |-> TRUE, ps |-> kept]
    ELSE IF value(S, ps[i]) # l_False /\ ps[i] # p
    THEN addClauseScan(S, ps, i + 1, ps[i], Append(kept, ps[i]))
    ELSE addClauseScan(S, ps, i + 1, p, kept)

addClauseScan(S, ps, i, p, kept) ==
    IF i > Len(ps) THEN [sat |-> FALSE, ps |-> kept]
    ELSE IF value(S, ps[i]) = l_True \/ ps[i] = Neg(p)
    THEN [sat |-> TRUE, ps |-> kept]
    ELSE IF value(S, ps[i]) # l_False /\ ps[i] # p
    THEN addClauseScan(S, ps, i + 1, ps[i], Append(kept, ps[i]))
    ELSE addClauseScan(S, ps, i + 1, p, kept)

\* addClause_: the state after the call and the value returned.
addClause_(S, input) ==
    IF ~S.ok THEN [S |-> S, r |-> FALSE]
    ELSE
      LET scan == addClauseScan(S, sort(input), 1, lit_Undef, <<>>)
          ps == scan.ps
      IN
      IF scan.sat THEN [S |-> S, r |-> TRUE]
      ELSE IF Len(ps) = 0 THEN [S |-> [S EXCEPT !.ok = FALSE], r |-> FALSE]
      ELSE IF Len(ps) = 1
      THEN
        LET S1 == propagate(uncheckedEnqueue(S, ps[1], CRef_Undef))
            r == (S1.confl = CRef_Undef)
        IN [S |-> [S1 EXCEPT !.ok = r], r |-> r]
      ELSE
        LET S1 == alloc(S, ps, FALSE)
            cr == Len(S1.ca)
            S2 == [S1 EXCEPT !.clauses = Append(@, cr)]
        IN [S |-> attachClause(S2, cr), r |-> TRUE]


\* ------------------------------------------------------ activities, the heap
\* Activities are kept exactly: activity[v] and var_inc are the numerators of the
\* source's doubles over one common denominator (var_decay_num ^ number of decays), so
\* that comparing two of them compares the source's values.  The rescaling branch of
\* varBumpActivity (an activity above 1e100) is out of reach of the bounded runs.
\*
\* The order heap has two models, chosen by bound.heap.  With "any", order_heap is the
\* set of the variables in the heap, the heap returns a variable of greatest activity
\* and, among equal activities, any of them.  With "binary", order_heap is the array of
\* a binary heap under VarOrderLt, its root at index 1 and the children of index i at
\* 2i and 2i + 1; insert and decrease move a variable up from its place, removeMin
\* moves the last variable to the root and then down.

\* bool VarOrderLt::operator()(Var x, Var y)
VarOrderLt(S, x, y) == S.activity[x] > S.activity[y]

inHeap(S, x) ==
    IF S.heap = "binary" THEN \E i \in 1..Len(S.order_heap) : S.order_heap[i] = x
    ELSE x \in S.order_heap

\* The variable x, at index i of the array h, moves up while it is before its parent.
RECURSIVE percolateUp(_, _, _, _)
percolateUp(S, h, i, x) ==
    IF i > 1 /\ VarOrderLt(S, x, h[i \div 2])
    THEN percolateUp(S, [h EXCEPT ![i] = h[i \div 2]], i \div 2, x)
    ELSE [h EXCEPT ![i] = x]

\* The child of index i that is first in the order: the right one only when it is
\* strictly before the left one.
heapChild(S, h, i) ==
    IF 2 * i + 1 <= Len(h) /\ VarOrderLt(S, h[2 * i + 1], h[2 * i]) THEN 2 * i + 1
    ELSE 2 * i

\* The variable x, at index i of the array h, moves down while a child is before it.
RECURSIVE percolateDown(_, _, _, _)
percolateDown(S, h, i, x) ==
    IF 2 * i <= Len(h) /\ VarOrderLt(S, h[heapChild(S, h, i)], x)
    THEN percolateDown(S, [h EXCEPT ![i] = h[heapChild(S, h, i)]], heapChild(S, h, i), x)
    ELSE [h EXCEPT ![i] = x]

heapInsert(S, x) == percolateUp(S, Append(S.order_heap, x), Len(S.order_heap) + 1, x)

heapDecrease(S, x) ==
    percolateUp(S, S.order_heap, CHOOSE i \in 1..Len(S.order_heap) : S.order_heap[i] = x, x)

\* The array left once its root is removed.
heapRemoveMin(S) ==
    LET h == S.order_heap
    IN IF Len(h) <= 2 THEN Tail(h)
       ELSE percolateDown(S, SubSeq(h, 1, Len(h) - 1), 1, h[Len(h)])

varBumpActivity(S, v) ==
    IF S.heap = "binary" /\ inHeap(S, v)
    THEN [S EXCEPT !.activity[v] = @ + S.var_inc,
                   !.order_heap = heapDecrease([S EXCEPT !.activity[v] = @ + S.var_inc], v)]
    ELSE [S EXCEPT !.activity[v] = @ + S.var_inc]

varDecayActivity(S) ==
    [S EXCEPT !.var_inc = @ * var_decay_den,
              !.activity = [v \in DOMAIN @ |-> @[v] * var_decay_num]]

\* cla_inc is (1/clause_decay)^cla_inc, kept as its exponent; the activity of a clause
\* is the list of the increments added to it (their exponents).
claBumpActivity(S, cr) == [S EXCEPT !.ca[cr].activity = Append(@, S.cla_inc)]

claDecayActivity(S) == [S EXCEPT !.cla_inc = @ + 1]

insertVarOrder(S, x) ==
    IF S.heap = "binary"
    THEN IF inHeap(S, x) THEN S ELSE [S EXCEPT !.order_heap = heapInsert(S, x)]
    ELSE [S EXCEPT !.order_heap = @ \cup {x}]

\* pickBranchLit removes the top of the heap until it holds an unassigned variable.
\* A result is the literal returned and the heap left.  With the heap a set, the heap
\* returns a variable of greatest activity and every order among equal activities is
\* allowed.
pickBranchLitAny(S) ==
    LET free == {v \in S.order_heap : S.assigns[v] = l_Undef}
        top == {v \in free : \A u \in free : S.activity[u] <= S.activity[v]}
        above(v) == {u \in S.order_heap \ free : S.activity[u] > S.activity[v]}
        equal(v) == {u \in S.order_heap \ free : S.activity[u] = S.activity[v]}
    IN IF free = {}
       THEN {[next |-> lit_Undef, S |-> [S EXCEPT !.order_heap = {}]]}
       ELSE {[next |-> mkLit(v, S.polarity[v]),
              S |-> [S EXCEPT !.order_heap = @ \ ({v} \cup above(v) \cup T),
                              !.decisions = @ + 1]] :
                v \in top, T \in SUBSET UNION {equal(u) : u \in top}}

\* With the binary heap: the loop of pickBranchLit.
RECURSIVE pickBranchLitHeap(_)
pickBranchLitHeap(S) ==
    IF S.order_heap = <<>> THEN [next |-> lit_Undef, S |-> S]
    ELSE IF S.assigns[S.order_heap[1]] = l_Undef
    THEN [next |-> mkLit(S.order_heap[1], S.polarity[S.order_heap[1]]),
          S |-> [S EXCEPT !.order_heap = heapRemoveMin(S), !.decisions = @ + 1]]
    ELSE pickBranchLitHeap([S EXCEPT !.order_heap = heapRemoveMin(S)])

\* A faulty variant: the decision is a variable of greatest activity chosen at random
\* among the unassigned ones.
pickBranchLit_random(S) ==
    LET free == {v \in DOMAIN S.assigns : S.assigns[v] = l_Undef}
        top == {v \in free : \A u \in free : S.activity[u] <= S.activity[v]}
        P == pickBranchLitHeap(S)
    IN IF P.next = lit_Undef THEN {P}
       ELSE {[P EXCEPT !.next = mkLit(v, S.polarity[v])] : v \in top}

\* Lit Solver::pickBranchLit(): the set of its results.
pickBranchLit(S) ==
    IF S.heap = "binary" THEN {pickBranchLitHeap(S)} ELSE pickBranchLitAny(S)

\* A faulty variant: the level starts one place after the end of the trail.
newDecisionLevel_afterNext(S) == [S EXCEPT !.trail_lim = Append(@, Len(S.trail) + 1)]

newDecisionLevel(S) == [S EXCEPT !.trail_lim = Append(@, Len(S.trail))]

\* A faulty variant: nothing is undone.
cancelUntil_nothing(S, lvl) == S

\* The heap once the variables of trail[lim + 1 .. c] are inserted, last to first.
RECURSIVE cancelInsert(_, _, _)
cancelInsert(S, c, lim) ==
    IF c <= lim THEN S.order_heap
    ELSE cancelInsert(insertVarOrder(S, var(S.trail[c])), c - 1, lim)

\* A faulty variant: qhead is left where it was.
cancelUntil_keepQhead(S, lvl) ==
    IF decisionLevel(S) > lvl
    THEN
      LET lim == S.trail_lim[lvl + 1]
          gone == (lim + 1)..Len(S.trail)
          at(x) == Min({c \in gone : var(S.trail[c]) = x})
          xs == {var(S.trail[c]) : c \in gone}
      IN [S EXCEPT !.assigns = [x \in DOMAIN @ |-> IF x \in xs THEN l_Undef ELSE @[x]],
                   !.polarity = [x \in DOMAIN @ |->
                                   IF x \in xs THEN sign(S.trail[at(x)]) ELSE @[x]],
                   !.order_heap = cancelInsert(S, Len(S.trail), lim),
                   !.trail = SubSeq(@, 1, lim),
                   !.trail_lim = SubSeq(@, 1, lvl)]
    ELSE S

\* A faulty variant: the variables removed from the trail keep their values.
cancelUntil_keepAssigns(S, lvl) ==
    IF decisionLevel(S) > lvl
    THEN
      LET lim == S.trail_lim[lvl + 1]
          gone == (lim + 1)..Len(S.trail)
          at(x) == Min({c \in gone : var(S.trail[c]) = x})
          xs == {var(S.trail[c]) : c \in gone}
      IN [S EXCEPT !.polarity = [x \in DOMAIN @ |->
                                   IF x \in xs THEN sign(S.trail[at(x)]) ELSE @[x]],
                   !.order_heap = cancelInsert(S, Len(S.trail), lim),
                   !.qhead = lim,
                   !.trail = SubSeq(@, 1, lim),
                   !.trail_lim = SubSeq(@, 1, lvl)]
    ELSE S

\* A faulty variant: the variables removed from the trail are not put back in the heap.
cancelUntil_noInsert(S, lvl) ==
    IF decisionLevel(S) > lvl
    THEN
      LET lim == S.trail_lim[lvl + 1]
          gone == (lim + 1)..Len(S.trail)
          at(x) == Min({c \in gone : var(S.trail[c]) = x})
          xs == {var(S.trail[c]) : c \in gone}
      IN [S EXCEPT !.assigns = [x \in DOMAIN @ |-> IF x \in xs THEN l_Undef ELSE @[x]],
                   !.polarity = [x \in DOMAIN @ |->
                                   IF x \in xs THEN sign(S.trail[at(x)]) ELSE @[x]],
                   !.qhead = lim,
                   !.trail = SubSeq(@, 1, lim),
                   !.trail_lim = SubSeq(@, 1, lvl)]
    ELSE S

\* A faulty variant: the polarity is not saved.
cancelUntil_noPhase(S, lvl) ==
    IF decisionLevel(S) > lvl
    THEN
      LET lim == S.trail_lim[lvl + 1]
          gone == (lim + 1)..Len(S.trail)
          at(x) == Min({c \in gone : var(S.trail[c]) = x})
          xs == {var(S.trail[c]) : c \in gone}
      IN [S EXCEPT !.assigns = [x \in DOMAIN @ |-> IF x \in xs THEN l_Undef ELSE @[x]],
                   !.order_heap = cancelInsert(S, Len(S.trail), lim),
                   !.qhead = lim,
                   !.trail = SubSeq(@, 1, lim),
                   !.trail_lim = SubSeq(@, 1, lvl)]
    ELSE S

\* void Solver::cancelUntil(int level)
cancelUntil(S, lvl) ==
    IF decisionLevel(S) > lvl
    THEN
      LET lim == S.trail_lim[lvl + 1]
          gone == (lim + 1)..Len(S.trail)
          at(x) == Min({c \in gone : var(S.trail[c]) = x})
          xs == {var(S.trail[c]) : c \in gone}
      IN [S EXCEPT !.assigns = [x \in DOMAIN @ |-> IF x \in xs THEN l_Undef ELSE @[x]],
                   !.polarity = [x \in DOMAIN @ |->
                                   IF x \in xs THEN sign(S.trail[at(x)]) ELSE @[x]],
                   !.order_heap = cancelInsert(S, Len(S.trail), lim),
                   !.qhead = lim,
                   !.trail = SubSeq(@, 1, lim),
                   !.trail_lim = SubSeq(@, 1, lvl)]
    ELSE S

\* --------------------------------------------------------- conflict analysis
RECURSIVE computeLBDLoop(_, _, _, _)
computeLBDLoop(S, lits, i, nblevels) ==
    IF i > Len(lits) THEN [S |-> S, lbd |-> nblevels]
    ELSE
      LET l == level(S, var(lits[i]))
      IN IF l \notin DOMAIN S.levelTagged
         THEN computeLBDLoop([S EXCEPT !.err = TRUE], lits, i + 1, nblevels)
         ELSE IF S.levelTagged[l] # S.FLAG
         THEN computeLBDLoop([S EXCEPT !.levelTagged[l] = S.FLAG], lits, i + 1,
                             nblevels + 1)
         ELSE computeLBDLoop(S, lits, i + 1, nblevels)

computeLBD(S, lits) ==
    computeLBDLoop([S EXCEPT !.FLAG = IF @ = FlagMax THEN 0 ELSE @ + 1], lits, 1, 0)

\* The loop of analyze over the literals c[j..] of one clause.
RECURSIVE analyzeLits(_, _, _, _, _)
analyzeLits(S, c, j, n, out) ==
    IF j > Len(c) THEN [S |-> S, n |-> n, out |-> out]
    ELSE
      LET q == c[j]
      IN IF S.seen[var(q)] = 0 /\ level(S, var(q)) > 0
         THEN
           LET S1 == [varBumpActivity(S, var(q)) EXCEPT !.seen[var(q)] = 1]
           IN IF level(S, var(q)) >= decisionLevel(S)
              THEN analyzeLits(S1, c, j + 1, n + 1, out)
              ELSE analyzeLits(S1, c, j + 1, n, Append(out, q))
         ELSE analyzeLits(S, c, j + 1, n, out)

\* The do-while loop of analyze.  index is the source's index into the trail.
RECURSIVE analyzeLoop(_, _, _, _, _, _)
analyzeLoop(S, confl, p, index, n, out) ==
    IF confl = CRef_Undef
    THEN [S |-> [S EXCEPT !.err = TRUE], p |-> p, out |-> out]
    ELSE
      LET c == S.ca[confl]
          S1 == IF c.learnt THEN claBumpActivity(S, confl) ELSE S
          R == analyzeLits(S1, c.lits, IF p = lit_Undef THEN 1 ELSE 2, n, out)
          cand == {i \in 0..index : R.S.seen[var(S.trail[i + 1])] = 1}
      IN IF cand = {}
         THEN [S |-> [R.S EXCEPT !.err = TRUE], p |-> p, out |-> R.out]
         ELSE
           LET ix == Max(cand)
               p2 == S.trail[ix + 1]
               S2 == [R.S EXCEPT !.seen[var(p2)] = 0]
           IN IF R.n - 1 > 0
              THEN analyzeLoop(S2, reason(S, var(p2)), p2, ix - 1, R.n - 1, R.out)
              ELSE [S |-> S2, p |-> p2, out |-> R.out]

\* analyze, lines 311-328: S is the state analyze was called in, AS the state after
\* its loop, l0 the clause the loop left (the asserting literal first).  The literal of
\* greatest level goes to index 1, the LBD is computed and seen is cleared.
\* A faulty variant: the literal of the backtrack level is not swapped in.
analyzeBacktrack_noSwap(S, AS, l0) ==
    LET lv(i) == level(S, var(l0[i]))
        max_i == Min({i \in 2..Len(l0) : \A k \in 2..Len(l0) : lv(k) <= lv(i)})
        out_learnt == l0
        out_btlevel == IF Len(l0) = 1 THEN 0 ELSE lv(max_i)
        L == computeLBD(AS, out_learnt)
        cleared == {var(out_learnt[j]) : j \in 1..Len(out_learnt)}
    IN [S |-> [L.S EXCEPT !.seen = [x \in DOMAIN @ |-> IF x \in cleared THEN 0 ELSE @[x]]],
        out_learnt |-> out_learnt, out_btlevel |-> out_btlevel, lbd |-> L.lbd]

\* A faulty variant: the final loop that clears seen is left out.
analyzeBacktrack_noClear(S, AS, l0) ==
    LET lv(i) == level(S, var(l0[i]))
        max_i == Min({i \in 2..Len(l0) : \A k \in 2..Len(l0) : lv(k) <= lv(i)})
        out_learnt == IF Len(l0) = 1 THEN l0
                      ELSE [l0 EXCEPT ![max_i] = l0[2], ![2] = l0[max_i]]
        out_btlevel == IF Len(l0) = 1 THEN 0 ELSE lv(max_i)
        L == computeLBD(AS, out_learnt)
    IN [S |-> L.S,
        out_learnt |-> out_learnt, out_btlevel |-> out_btlevel, lbd |-> L.lbd]

analyzeBacktrack(S, AS, l0) ==
    LET lv(i) == level(S, var(l0[i]))
        max_i == Min({i \in 2..Len(l0) : \A k \in 2..Len(l0) : lv(k) <= lv(i)})
        out_learnt == IF Len(l0) = 1 THEN l0
                      ELSE [l0 EXCEPT ![max_i] = l0[2], ![2] = l0[max_i]]
        out_btlevel == IF Len(l0) = 1 THEN 0 ELSE lv(max_i)
        L == computeLBD(AS, out_learnt)
        cleared == {var(out_learnt[j]) : j \in 1..Len(out_learnt)}
    IN [S |-> [L.S EXCEPT !.seen = [x \in DOMAIN @ |-> IF x \in cleared THEN 0 ELSE @[x]]],
        out_learnt |-> out_learnt, out_btlevel |-> out_btlevel, lbd |-> L.lbd]

\* A faulty variant: the literals of the lower levels are left out of the clause.
analyzeLearnt_dropLower(S, A) == analyzeBacktrack(S, A.S, <<Neg(A.p)>>)

\* A faulty variant: the asserting literal is put last, not first.
analyzeLearnt_assertingLast(S, A) == analyzeBacktrack(S, A.S, A.out \o <<Neg(A.p)>>)

\* The clause the loop of analyze left in A: out_learnt[0] = ~p, then the literals of
\* lower levels.
analyzeLearnt(S, A) == analyzeBacktrack(S, A.S, <<Neg(A.p)>> \o A.out)

\* analyze: the state after it, out_learnt, out_btlevel and lbd.
analyze(S, confl) ==
    analyzeLearnt(S, analyzeLoop(S, confl, lit_Undef, Len(S.trail) - 1, 0, <<>>))

\* ------------------------------------------------ reduceDB, garbage collection
RECURSIVE Pow(_, _)
Pow(b, e) == IF e = 0 THEN 1 ELSE b * Pow(b, e - 1)

RECURSIVE SumSeq(_)
SumSeq(s) == IF s = <<>> THEN 0 ELSE Head(s) + SumSeq(Tail(s))

\* The activity of a clause, scaled by clause_decay_num^top / clause_decay_den^low so
\* that it is an integer: the sum of (1/clause_decay)^e over the increments e added.
claActivity(acts, low, top) ==
    SumSeq([i \in 1..Len(acts) |->
              Pow(clause_decay_den, acts[i] - low) * Pow(clause_decay_num, top - acts[i])])

activityLess(a, b) ==
    LET es == SeqToSet(a) \cup SeqToSet(b)
    IN IF es = {} THEN FALSE
       ELSE claActivity(a, Min(es), Max(es)) < claActivity(b, Min(es), Max(es))

reduceDB_lt(S, x, y) ==
    LET cx == S.ca[x]
        cy == S.ca[y]
    IN IF Len(cx.lits) > 2 /\ Len(cy.lits) = 2 THEN TRUE
       ELSE IF Len(cy.lits) > 2 /\ Len(cx.lits) = 2 THEN FALSE
       ELSE IF Len(cx.lits) = 2 /\ Len(cy.lits) = 2 THEN FALSE
       ELSE IF cx.lbd > cy.lbd THEN TRUE
       ELSE IF cx.lbd < cy.lbd THEN FALSE
       ELSE activityLess(cx.activity, cy.activity)

\* sort(learnts, reduceDB_lt): a stable sort by the comparator.
RECURSIVE insertLearnt(_, _, _)
insertLearnt(S, s, x) ==
    IF s = <<>> THEN <<x>>
    ELSE IF ~reduceDB_lt(S, x, Head(s))
    THEN <<Head(s)>> \o insertLearnt(S, Tail(s), x)
    ELSE <<x>> \o s

RECURSIVE sortLearnts(_, _)
sortLearnts(S, s) ==
    IF s = <<>> THEN <<>>
    ELSE insertLearnt(S, sortLearnts(S, SubSeq(s, 1, Len(s) - 1)), s[Len(s)])

locked(S, cr) ==
    LET c == S.ca[cr].lits
    IN /\ value(S, c[1]) = l_True
       /\ reason(S, var(c[1])) # CRef_Undef
       /\ reason(S, var(c[1])) = cr

\* A faulty variant: only the list of the first watched literal is smudged.
detachClause_oneList(S, cr) ==
    LET c == S.ca[cr].lits
    IN [S EXCEPT !.dirty = @ \cup {Neg(c[1])},
                 !.err = @ \/ (Len(c) <= 1)]

detachClause(S, cr) ==
    LET c == S.ca[cr].lits
    IN [S EXCEPT !.dirty = @ \cup {Neg(c[1]), Neg(c[2])},
                 !.err = @ \/ (Len(c) <= 1)]

removeClause(S, cr) ==
    LET S1 == detachClause(S, cr)
        S2 == IF locked(S1, cr)
              THEN [S1 EXCEPT !.vardata[var(S.ca[cr].lits[1])].reason = CRef_Undef]
              ELSE S1
    IN [S2 EXCEPT !.ca[cr].mark = 1]

\* The arena in 32-bit units: a header, the literals and, for a learnt clause, the
\* activity and the LBD.
clauseUnits(c) == 1 + Len(c.lits) + (IF c.learnt THEN 2 ELSE 0)
caSize(S) == SumSeq([i \in 1..Len(S.ca) |-> clauseUnits(S.ca[i])])
caWasted(S) ==
    SumSeq([i \in 1..Len(S.ca) |-> IF S.ca[i].mark = 1 THEN clauseUnits(S.ca[i]) ELSE 0])

\* The references relocAll passes to ca.reloc, in its order.
RECURSIVE flatten(_)
flatten(ss) == IF ss = <<>> THEN <<>> ELSE Head(ss) \o flatten(Tail(ss))

\* reloc over a list of references: to is the old references in the order of their
\* copies in the new arena.
RECURSIVE relocList(_, _)
relocList(to, crs) ==
    IF crs = <<>> THEN to
    ELSE IF \E i \in 1..Len(to) : to[i] = Head(crs)
    THEN relocList(to, Tail(crs))
    ELSE relocList(Append(to, Head(crs)), Tail(crs))

\* The reasons relocAll relocates: of the variables on the trail, in trail order.
RECURSIVE relocReasons(_, _, _)
relocReasons(S, to, i) ==
    IF i > Len(S.trail) THEN to
    ELSE
      LET r == reason(S, var(S.trail[i]))
      IN IF r # CRef_Undef /\ ((\E k \in 1..Len(to) : to[k] = r) \/ locked(S, r))
         THEN relocReasons(S, relocList(to, <<r>>), i + 1)
         ELSE relocReasons(S, to, i + 1)

relocAll(S0) ==
    LET S == cleanAll(S0)
        n == nVars(S)
        ws == flatten([k \in 1..(2 * n) |->
                         [j \in 1..Len(S.watches[k - 1]) |-> S.watches[k - 1][j].cref]])
        to1 == relocList(<<>>, ws)
        to2 == relocReasons(S, to1, 1)
        to3 == relocList(relocList(to2, S.learnts), S.clauses)
        new(cr) == CHOOSE k \in 1..Len(to3) : to3[k] = cr
        moved(cr) == \E k \in 1..Len(to3) : to3[k] = cr
        onTrail == {var(S.trail[i]) : i \in 1..Len(S.trail)}
    IN [S EXCEPT !.ca = [k \in 1..Len(to3) |-> S.ca[to3[k]]],
                 !.watches = [p \in DOMAIN @ |->
                                [j \in 1..Len(@[p]) |->
                                   Watcher(new(@[p][j].cref), @[p][j].blocker)]],
                 !.vardata = [v \in DOMAIN @ |->
                                IF v \in onTrail /\ @[v].reason # CRef_Undef
                                   /\ moved(@[v].reason)
                                THEN mkVarData(new(@[v].reason), @[v].level)
                                ELSE @[v]],
                 !.learnts = [k \in 1..Len(@) |-> new(@[k])],
                 !.clauses = [k \in 1..Len(@) |-> new(@[k])]]

garbageCollect(S) == relocAll(S)

\* A faulty variant: the arena is collected at every call, whatever is wasted.
checkGarbage_always(S) == garbageCollect(S)

checkGarbage(S) ==
    IF caWasted(S) * S.garbage_frac[2] > caSize(S) * S.garbage_frac[1]
    THEN garbageCollect(S)
    ELSE S

\* The loop of reduceDB over the sorted learnts.
RECURSIVE reduceDBLoop(_, _, _, _)
\* A faulty variant: a locked clause is removed like another.
reduceDBLoop_noLockTest(S, ls, i, kept) ==
    IF i > Len(ls) THEN [S EXCEPT !.learnts = kept]
    ELSE IF Len(S.ca[ls[i]].lits) > 2 /\ (i - 1) < Len(ls) \div 2
    THEN reduceDBLoop(removeClause(S, ls[i]), ls, i + 1, kept)
    ELSE reduceDBLoop(S, ls, i + 1, Append(kept, ls[i]))

\* A faulty variant: the clauses of the second half are removed as well.
reduceDBLoop_wholeList(S, ls, i, kept) ==
    IF i > Len(ls) THEN [S EXCEPT !.learnts = kept]
    ELSE IF Len(S.ca[ls[i]].lits) > 2 /\ ~locked(S, ls[i])
    THEN reduceDBLoop(removeClause(S, ls[i]), ls, i + 1, kept)
    ELSE reduceDBLoop(S, ls, i + 1, Append(kept, ls[i]))

reduceDBLoop(S, ls, i, kept) ==
    IF i > Len(ls) THEN [S EXCEPT !.learnts = kept]
    ELSE IF Len(S.ca[ls[i]].lits) > 2 /\ ~locked(S, ls[i]) /\ (i - 1) < Len(ls) \div 2
    THEN reduceDBLoop(removeClause(S, ls[i]), ls, i + 1, kept)
    ELSE reduceDBLoop(S, ls, i + 1, Append(kept, ls[i]))

reduceDB(S) ==
    LET S1 == [S EXCEPT !.nb_reducedb = @ + 1]
    IN checkGarbage(reduceDBLoop(S1, sortLearnts(S1, S1.learnts), 1, <<>>))

\* -------------------------------------------------------- search and solve_
\* The bounded queues lbdQueue and trailQueue: the last values pushed, at most the
\* capacity; isvalid is "full", getavg the mean, fastclear empties.
bqPush(q, x, cap) == IF Len(q) >= cap THEN Append(SubSeq(q, Len(q) - cap + 2, Len(q)), x)
                     ELSE Append(q, x)
bqValid(q, cap) == Len(q) = cap

\* trail.size() > 1.4 * trailQueue.getavg()
blockRestart(S) ==
    /\ S.conflicts > BlockRestartMinConflicts
    /\ bqValid(S.lbdQueue, LbdQueueSize)
    /\ 10 * Len(S.trail) * Len(S.trailQueue) > 14 * SumSeq(S.trailQueue)

\* A faulty variant: a restart whenever the queue is full.
glucoseRestart_always(S) == bqValid(S.lbdQueue, LbdQueueSize)

\* lbdQueue.getavg() * 0.8 > sumLBD / conflicts
glucoseRestart(S) ==
    /\ bqValid(S.lbdQueue, LbdQueueSize)
    /\ 8 * SumSeq(S.lbdQueue) * S.conflicts > 10 * Len(S.lbdQueue) * S.sumLBD

\* A faulty variant: a conflict at decision level 1 is taken for a refutation too.
rootConflict_level1(S) == decisionLevel(S) <= 1

\* search, line 34: if(decisionLevel() == 0) return l_False
rootConflict(S) == decisionLevel(S) = 0

\* search, lines 52-61: the learnt clause is stored and its first literal enqueued; S
\* is the state after cancelUntil, A the result of analyze.
searchLearn(S, A) ==
    IF Len(A.out_learnt) = 1
    THEN uncheckedEnqueue(S, A.out_learnt[1], CRef_Undef)
    ELSE
      LET a == alloc(S, A.out_learnt, TRUE)
          cr == Len(S.ca) + 1
          b == attachClause([a EXCEPT !.learnts = Append(@, cr)], cr)
          d == uncheckedEnqueue(claBumpActivity(b, cr), A.out_learnt[1], cr)
      IN [d EXCEPT !.ca[cr].lbd = A.lbd]

\* search, lines 47-64: A is the result of analyze.
searchBackjump(A) ==
    LET S3 == [A.S EXCEPT !.lbdQueue = bqPush(@, A.lbd, LbdQueueSize),
                          !.sumLBD = @ + A.lbd]
    IN claDecayActivity(varDecayActivity(searchLearn(cancelUntil(S3, A.out_btlevel), A)))

\* search, lines 37-44: the trail size is recorded, a restart may be blocked, and the
\* conflict confl is analysed.
searchAnalyze(S0, confl) ==
    LET S1 == [S0 EXCEPT !.trailQueue = bqPush(@, Len(S0.trail), TrailQueueSize)]
    IN analyze(IF blockRestart(S1) THEN [S1 EXCEPT !.lbdQueue = <<>>] ELSE S1, confl)

\* search, lines 30-66: S is the state after propagate returned the conflict S.confl.
\* r is the value search returns, or "continue" for the next iteration.
searchConflict(S) ==
    LET S0 == [S EXCEPT !.conflicts = @ + 1]
    IN IF rootConflict(S0) THEN [S |-> S0, r |-> l_False]
       ELSE [S |-> searchBackjump(searchAnalyze(S0, S.confl)), r |-> "continue"]

\* search, lines 68-86: S is the state after propagate returned CRef_Undef.
searchNoConflict(S) ==
    IF glucoseRestart(S)
    THEN {[S |-> cancelUntil([S EXCEPT !.lbdQueue = <<>>], 0), r |-> l_Undef]}
    ELSE
      LET S1 == IF S.conflicts >= S.nextReduceDB
                THEN LET R == reduceDB(S)
                     IN [R EXCEPT !.nextReduceDB =
                                    R.conflicts + FirstReduceDB + 1000 * R.nb_reducedb]
                ELSE S
      IN {IF pk.next = lit_Undef
          THEN [S |-> pk.S, r |-> l_True]
          ELSE [S |-> uncheckedEnqueue(newDecisionLevel(pk.S), pk.next, CRef_Undef),
                r |-> "continue"] : pk \in pickBranchLit(S1)}

\* One iteration of the loop of search.
searchIteration(S) ==
    LET P == propagate(S)
    IN IF P.confl # CRef_Undef THEN {searchConflict(P)} ELSE searchNoConflict(P)

\* A faulty variant: the interrupt flag is not tested.
withinBudget_noInterrupt ==
    /\ (conflict_budget < 0 \/ conflicts < conflict_budget)
    /\ (propagation_budget < 0 \/ propagations < propagation_budget)

\* A faulty variant: the test of the interrupt flag inverted.
withinBudget_inverted ==
    /\ asynch_interrupt
    /\ (conflict_budget < 0 \/ conflicts < conflict_budget)
    /\ (propagation_budget < 0 \/ propagations < propagation_budget)

\* bool Solver::withinBudget() const
withinBudget ==
    /\ ~asynch_interrupt
    /\ (conflict_budget < 0 \/ conflicts < conflict_budget)
    /\ (propagation_budget < 0 \/ propagations < propagation_budget)

\* ------------------------------------------------------------- the actions
InitSolver ==
    /\ ok = TRUE
    /\ clauses = <<>>
    /\ learnts = <<>>
    /\ ca = <<>>
    /\ watches = <<>>
    /\ dirty = {}
    /\ assigns = <<>>
    /\ polarity = <<>>
    /\ trail = <<>>
    /\ trail_lim = <<>>
    /\ vardata = <<>>
    /\ qhead = 0
    /\ activity = <<>>
    /\ var_inc = 1
    /\ cla_inc = 0
    /\ seen = <<>>
    /\ levelTagged = <<>>
    /\ FLAG = 0
    /\ lbdQueue = <<>>
    /\ trailQueue = <<>>
    /\ sumLBD = 0
    /\ nb_reducedb = 0
    /\ starts = 0
    /\ decisions = 0
    /\ propagations = 0
    /\ conflicts = 0
    /\ conflict_budget = -1
    /\ propagation_budget = -1
    /\ asynch_interrupt = FALSE
    /\ model = <<>>
    /\ pc = "idle"
    /\ status = l_Undef
    /\ curr_restarts = 0
    /\ nof_conflicts = 0
    /\ nbConflictsInCurrentRun = 0
    /\ ret = [op |-> "none", val |-> "none"]
    /\ added = {}
    /\ nAdds = 0
    /\ nSolves = 0
    /\ atCall = [conflict_budget |-> -1, conflicts |-> 0, decisions |-> 0,
                 ok |-> TRUE, nAssigns |-> 0, refuted |-> FALSE,
                 afterFalse |-> FALSE]
    /\ err = FALSE

\* bound holds the bounds of the run: how many variables, addClause calls and solve
\* calls it makes, the number of conflicts after which a search takes no more step,
\* the model of the order heap, and the value given to the field garbage_frac.
Init ==
    /\ InitSolver
    /\ nextReduceDB = FirstReduceDB
    /\ order_heap = {}
    /\ bound = [vars |-> MaxVars, adds |-> MaxAdds, solves |-> MaxSolves,
                conflicts |-> MaxConflicts, heap |-> "any",
                garbage_frac |-> opt_garbage_frac]

InitBudget ==
    /\ InitSolver
    /\ nextReduceDB = FirstReduceDB
    /\ order_heap = {}
    /\ bound = [vars |-> MaxVars, adds |-> BudgetAdds, solves |-> BudgetSolves,
                conflicts |-> MaxConflicts, heap |-> "any",
                garbage_frac |-> opt_garbage_frac]

InitAdd ==
    /\ InitSolver
    /\ nextReduceDB = FirstReduceDB
    /\ order_heap = {}
    /\ bound = [vars |-> AddVars, adds |-> AddAdds, solves |-> 0,
                conflicts |-> MaxConflicts, heap |-> "any",
                garbage_frac |-> opt_garbage_frac]

solverVars == <<ok, clauses, learnts, ca, watches, dirty, assigns, polarity, trail,
                trail_lim, vardata, qhead, order_heap, activity, var_inc, cla_inc, seen,
                levelTagged, FLAG, lbdQueue, trailQueue, sumLBD, nextReduceDB,
                nb_reducedb, decisions, propagations, conflicts, err>>

budgetVars == <<conflict_budget, propagation_budget>>

solveVars == <<starts, model, pc, status, curr_restarts, nof_conflicts,
               nbConflictsInCurrentRun, nSolves, atCall>>

ghostVars == <<added, nAdds, bound>>

\* Var Solver::newVar(bool sign)
newVar(sgn) ==
    /\ pc = "idle"
    /\ Cardinality(DOMAIN vardata) < bound.vars
    /\ LET v == Cardinality(DOMAIN vardata)
       IN /\ watches' = watches @@ (mkLit(v, FALSE) :> <<>>) @@ (mkLit(v, TRUE) :> <<>>)
          /\ assigns' = assigns @@ (v :> l_Undef)
          /\ vardata' = vardata @@ (v :> mkVarData(CRef_Undef, 0))
          /\ activity' = activity @@ (v :> 0)
          /\ seen' = seen @@ (v :> 0)
          /\ polarity' = polarity @@ (v :> sgn)
          /\ order_heap' = insertVarOrder([St EXCEPT !.activity = @ @@ (v :> 0)], v).order_heap
          /\ levelTagged' = levelTagged @@ (v :> 0)
          /\ ret' = [op |-> "newVar", val |-> v]
    /\ UNCHANGED <<ok, clauses, learnts, ca, dirty, trail, trail_lim, qhead, var_inc,
                   cla_inc, FLAG, lbdQueue, trailQueue, sumLBD, nextReduceDB,
                   nb_reducedb, decisions, propagations, conflicts, err, ghostVars>>
    /\ UNCHANGED <<budgetVars, solveVars, asynch_interrupt>>

\* The clauses a caller may pass: up to AddLen literals of the n variables created.
ClauseInputs(n) ==
    UNION {[1..k -> 0..(2 * n - 1)] : k \in 0..AddLen}

\* A pool of clauses over four variables a, b, c, d (literals a = 0, ~a = 1, b = 2,
\* ~b = 3, c = 4, ~c = 5, d = 6, ~d = 7).  A run adds clauses of the pool in the
\* pool's order, skipping any: two binary clauses that imply a, two ternary clauses
\* that conflict two levels deep, the two binary clauses that complete an
\* unsatisfiable set no single addClause refutes, the unit ~a, a tautology, a clause
\* with a repeated literal, and the empty clause.
Pool ==
    <<  <<0, 2>>, <<0, 3>>, <<3, 4, 6>>, <<3, 4, 7>>, <<1, 2>>, <<1, 3>>,
        <<1>>, <<5, 2, 4>>, <<6, 0, 6, 4>>, <<>>  >>

PoolInputs(n) ==
    {i \in 1..Len(Pool) :
        /\ \A k \in 1..Len(Pool[i]) : var(Pool[i][k]) < n
        /\ \A j \in i..Len(Pool) : SeqToSet(Pool[j]) \notin added}

\* bool Solver::addClause_(vec<Lit> &ps)
addClause(ps) ==
    /\ pc = "idle"
    /\ nAdds < bound.adds
    /\ LET R == addClause_(St, ps)
       IN /\ Commit(R.S)
          /\ ret' = [op |-> "addClause", val |-> R.r, arg |-> sort(ps)]
    /\ added' = added \cup {SeqToSet(ps)}
    /\ nAdds' = nAdds + 1
    /\ UNCHANGED bound
    /\ UNCHANGED <<budgetVars, solveVars, asynch_interrupt>>

INT_MAX == 2 ^ (IntBits - 1) - 1

\* luby, first loop: for(size = 1, seq = 0; size < x + 1; seq++, size = 2 * size + 1);
\* the result is <<size, seq>>.
RECURSIVE lubyFind(_, _, _)
lubyFind(size, seq, x) ==
    IF size < x + 1 THEN lubyFind(2 * size + 1, seq + 1, x) ELSE <<size, seq>>

\* luby, second loop: while(size - 1 != x) { size = (size - 1) >> 1; seq--;
\* x = x % size; }; the result is seq.
RECURSIVE lubyDown(_, _, _)
\* A faulty variant: seq is not decremented.
lubyDown_keepSeq(size, seq, x) ==
    IF size - 1 # x
    THEN lubyDown((size - 1) \div 2, seq, x % ((size - 1) \div 2))
    ELSE seq

lubyDown(size, seq, x) ==
    IF size - 1 # x
    THEN lubyDown((size - 1) \div 2, seq - 1, x % ((size - 1) \div 2))
    ELSE seq

\* pow(y, seq), exact for the integers y and seq >= 0 of the calls.
pow(y, seq) == y ^ seq

\* x + 1 overflows int when x is INT_MAX: the behaviour of luby is then undefined.
\* 2 * size + 1 does not overflow otherwise: it is computed when size < x + 1 only,
\* and size is 2^k - 1.
lubyOverflows(x) == x + 1 > INT_MAX

\* The outcomes of a call with undefined behaviour.  With wrapping arithmetic x + 1
\* is negative, the first loop ends with size = 1, and the second loop divides by 0
\* (x % size with size = 0); a build that takes x + 1 > x for granted keeps doubling
\* size and never returns.
lubyUndefined == {"SIGFPE", "no return"}

\* double luby(double y, int x), for a call whose behaviour is defined.
luby(y, x) == pow(y, lubyDown(lubyFind(1, 0, x)[1], lubyFind(1, 0, x)[2], x))

\* solve_, lines 118-119: status = search(rest_base * 32) with rest_base =
\* luby(2, curr_restarts), luby_restart being true (Solver.cc:563); search starts
\* with nbConflictsInCurrentRun = 0 (Solver.cc:24).  r is the value of curr_restarts.
searchCall(r) ==
    /\ nof_conflicts' = RestartUnit * luby(2, r)
    /\ nbConflictsInCurrentRun' = 0

\* A faulty variant: solve_ without the test of ok.
solve_noOkTest ==
    /\ pc = "idle"
    /\ nSolves < bound.solves
    /\ nSolves' = nSolves + 1
    /\ atCall' = [conflict_budget |-> conflict_budget, conflicts |-> conflicts,
                  decisions |-> decisions, ok |-> ok, nAssigns |-> Len(trail),
                  refuted |-> atCall.refuted \/ status = l_False,
                  afterFalse |-> ret = [op |-> "solve", val |-> l_False]]
    /\ conflict_budget' = -1
    /\ propagation_budget' = -1
    /\ model' = <<>>
    /\ status' = l_Undef
    /\ curr_restarts' = 0
    /\ searchCall(0)
    /\ starts' = starts + 1
    /\ pc' = "search"
    /\ ret' = [op |-> "solve", val |-> "running"]
    /\ UNCHANGED <<solverVars, ghostVars, asynch_interrupt>>

\* lbool Solver::solve(): budgetOff, then solve_ up to its first call of search.
solve ==
    /\ pc = "idle"
    /\ nSolves < bound.solves
    /\ nSolves' = nSolves + 1
    /\ atCall' = [conflict_budget |-> conflict_budget, conflicts |-> conflicts,
                  decisions |-> decisions, ok |-> ok, nAssigns |-> Len(trail),
                  refuted |-> atCall.refuted \/ status = l_False,
                  afterFalse |-> ret = [op |-> "solve", val |-> l_False]]
    /\ conflict_budget' = -1
    /\ propagation_budget' = -1
    /\ model' = <<>>
    /\ IF ~ok
       THEN /\ ret' = [op |-> "solve", val |-> l_False]
            /\ UNCHANGED <<pc, status, curr_restarts, starts, nof_conflicts,
                           nbConflictsInCurrentRun>>
       ELSE /\ status' = l_Undef
            /\ curr_restarts' = 0
            /\ searchCall(0)
            /\ starts' = starts + 1
            /\ pc' = "search"
            /\ ret' = [op |-> "solve", val |-> "running"]
    /\ UNCHANGED <<solverVars, ghostVars, asynch_interrupt>>

\* One iteration of the loop of search; when search returns, status holds its value.
searchStep ==
    /\ pc = "search"
    /\ conflicts < bound.conflicts
    /\ \E o \in searchIteration(St) :
         /\ Commit(o.S)
         /\ IF o.r = "continue"
            THEN UNCHANGED <<pc, status>>
            ELSE pc' = "returned" /\ status' = o.r
    /\ nbConflictsInCurrentRun' = nbConflictsInCurrentRun + (conflicts' - conflicts)
    /\ UNCHANGED <<budgetVars, starts, model, curr_restarts, nof_conflicts, nSolves, atCall,
                   ret, ghostVars, asynch_interrupt>>

\* solve_, lines 119-130: after search returned, leave the loop or search again.
solveLoop ==
    /\ pc = "returned"
    /\ IF withinBudget /\ status = l_Undef
       THEN /\ curr_restarts' = curr_restarts + 1
            /\ searchCall(curr_restarts + 1)
            /\ starts' = starts + 1
            /\ pc' = "search"
            /\ UNCHANGED <<solverVars, model, ret>>
       ELSE /\ curr_restarts' = IF withinBudget THEN curr_restarts + 1 ELSE curr_restarts
            /\ UNCHANGED <<nof_conflicts, nbConflictsInCurrentRun>>
            /\ model' = IF status = l_True THEN assigns ELSE model
            /\ Commit(cancelUntil(St, 0))
            /\ pc' = "idle"
            /\ ret' = [op |-> "solve", val |-> status]
            /\ UNCHANGED starts
    /\ UNCHANGED <<budgetVars, status, nSolves, atCall, ghostVars, asynch_interrupt>>

\* void Solver::interrupt(), from any context, at any time
interrupt ==
    /\ ~asynch_interrupt
    /\ asynch_interrupt' = TRUE
    /\ UNCHANGED <<solverVars, budgetVars, solveVars, ret, ghostVars>>

clearInterrupt ==
    /\ pc = "idle"
    /\ asynch_interrupt
    /\ asynch_interrupt' = FALSE
    /\ UNCHANGED <<solverVars, budgetVars, solveVars, ret, ghostVars>>

\* void Solver::setConfBudget(int64_t x)
setConfBudget(x) ==
    /\ pc = "idle"
    /\ conflict_budget' = conflicts + x
    /\ conflict_budget' # conflict_budget
    /\ UNCHANGED <<solverVars, propagation_budget, solveVars, ret, ghostVars,
                   asynch_interrupt>>

\* newVar, addClause and solve called in any order, with no budget and no interrupt.
Next ==
    \/ \E sgn \in {TRUE} : newVar(sgn)
    \/ \E i \in PoolInputs(Cardinality(DOMAIN vardata)) : addClause(Pool[i])
    \/ solve
    \/ searchStep
    \/ solveLoop

Spec == Init /\ [][Next]_vars

\* A solve call that has started runs on: search and solve_ are sequential code, so
\* searchStep and solveLoop are taken whenever they are enabled.  Every searchStep
\* counts a conflict or a decision or leaves the loop, and every solveLoop changes
\* pc, so the two fairness conditions are stated on these variables:
\* WF_vars(searchStep) is WF_searchTick(searchTicks), WF_vars(solveLoop) is
\* WF_pc(solveLoopTicks).
searchTick == <<pc, conflicts, decisions>>
searchTicks ==
    /\ pc = "search"
    /\ conflicts < bound.conflicts
    /\ pc' \in {"search", "returned"}
    /\ conflicts' \in {conflicts, conflicts + 1}
    /\ decisions' \in {decisions, decisions + 1}
solveLoopTicks ==
    /\ pc = "returned"
    /\ pc' \in {"search", "idle"}

\* The same calls, and interrupt, clearInterrupt and setConfBudget: interrupt may come
\* at any point of a solve, as from the signal handler of Main.cc.
NextBudget ==
    \/ Next
    \/ interrupt
    \/ clearInterrupt
    \/ setConfBudget(0)

SpecBudget ==
    /\ InitBudget
    /\ [][NextBudget]_vars
    /\ WF_searchTick(searchTicks)
    /\ WF_pc(solveLoopTicks)

FairSpec ==
    /\ InitBudget
    /\ [][Next]_vars
    /\ WF_searchTick(searchTicks)
    /\ WF_pc(solveLoopTicks)

\* The calls of Spec on a solver whose order heap is the binary heap.
InitHeap ==
    /\ InitSolver
    /\ nextReduceDB = FirstReduceDB
    /\ order_heap = <<>>
    /\ bound = [vars |-> MaxVars, adds |-> MaxAdds, solves |-> MaxSolves,
                conflicts |-> MaxConflicts, heap |-> "binary",
                garbage_frac |-> opt_garbage_frac]

SpecHeap == InitHeap /\ [][Next]_vars

\* A call of computeLBD on the clause lits, whose literals are on the trail, at levels
\* that levelTagged has an entry for.
computeLBDCall(lits) ==
    /\ pc = "search"
    /\ \A i \in 1..Len(lits) :
          /\ \E k \in 1..Len(trail) : trail[k] = lits[i]
          /\ level(St, var(lits[i])) \in DOMAIN levelTagged
    /\ Commit(computeLBD(St, lits).S)
    /\ ret' = [op |-> "computeLBD", val |-> computeLBD(St, lits).lbd, arg |-> lits]
    /\ UNCHANGED <<budgetVars, solveVars, ghostVars, asynch_interrupt>>

\* The clauses given to addClause, in this order, in the specification of computeLBD:
\* x0, and x1 or x2.
LbdPool == << <<0>>, <<2, 4>> >>

\* The clauses that computeLBD is called on: one to LbdLen literals.
LbdInputs ==
    UNION {[1..n -> 0..(2 * LbdVars - 1)] : n \in 1..LbdLen}

InitLBD ==
    /\ InitSolver
    /\ nextReduceDB = FirstReduceDB
    /\ order_heap = {}
    /\ bound = [vars |-> LbdVars, adds |-> Len(LbdPool), solves |-> 1,
                conflicts |-> MaxConflicts, heap |-> "any",
                garbage_frac |-> opt_garbage_frac]

NextLBD ==
    \/ \E sgn \in {TRUE} : newVar(sgn)
    \/ /\ Cardinality(DOMAIN vardata) = LbdVars
       /\ nAdds < Len(LbdPool)
       /\ addClause(LbdPool[nAdds + 1])
    \/ solve
    \/ searchStep
    \/ solveLoop
    \/ \E lits \in LbdInputs : computeLBDCall(lits)

SpecLBD == InitLBD /\ [][NextLBD]_vars

\* A call of luby(2, x) on any int x >= 0: end tells how the call ends, val is the
\* value returned when it returns.
lubyCall(x) ==
    /\ \E e \in (IF lubyOverflows(x) THEN lubyUndefined ELSE {"return"}) :
          ret' = [op |-> "luby", end |-> e, arg |-> x,
                  val |-> IF e = "return" THEN luby(2, x) ELSE 0]
    /\ UNCHANGED <<solverVars, budgetVars, solveVars, ghostVars, asynch_interrupt>>

InitLuby == Init

NextLuby == \E x \in 0..INT_MAX : lubyCall(x)

SpecLuby == InitLuby /\ [][NextLuby]_vars

\* The clauses given to addClause, in this order, in the specification of reduceDB.
ReducePool ==
    << <<0, 2, 4, 6>>, <<0, 2, 4, 7>>, <<0, 5, 8, 10>>, <<0, 5, 8, 11>>,
       <<1, 3, 9, 6>>, <<1, 3, 9, 7>>, <<1, 2, 8>>, <<1, 3, 5>> >>

InitReduce ==
    /\ InitSolver
    /\ nextReduceDB \in ReduceFirst..ReduceLast
    /\ order_heap = {}
    /\ bound = [vars |-> ReduceVars, adds |-> Len(ReducePool), solves |-> 1,
                conflicts |-> MaxConflicts, heap |-> "any",
                garbage_frac |-> opt_garbage_frac]

NextReduce ==
    \/ \E sgn \in {TRUE} : newVar(sgn)
    \/ /\ Cardinality(DOMAIN vardata) = ReduceVars
       /\ nAdds < Len(ReducePool)
       /\ addClause(ReducePool[nAdds + 1])
    \/ solve
    \/ searchStep
    \/ solveLoop

SpecReduce == InitReduce /\ [][NextReduce]_vars

\* The runs of SpecReduce with the field garbage_frac set by the caller, to its default
\* or to 1 / GcFracDen: with the default, no run of these bounds wastes enough for a
\* collection.
InitGC ==
    /\ InitSolver
    /\ nextReduceDB \in ReduceFirst..ReduceLast
    /\ order_heap = {}
    /\ \E gf \in {opt_garbage_frac, <<1, GcFracDen>>} :
          bound = [vars |-> ReduceVars, adds |-> Len(ReducePool), solves |-> 1,
                   conflicts |-> MaxConflicts, heap |-> "any", garbage_frac |-> gf]

SpecGC == InitGC /\ [][NextReduce]_vars

\* newVar and addClause alone, with every clause of at most AddLen literals.
NextAdd ==
    \/ \E sgn \in {TRUE} : newVar(sgn)
    \/ \E ps \in ClauseInputs(Cardinality(DOMAIN vardata)) : addClause(ps)

SpecAdd == InitAdd /\ [][NextAdd]_vars

\* ---------------------------------------------------------------------- claims
\* The literal p is true under the model vector m.
litTrueIn(m, p) == var(p) \in DOMAIN m /\ m[var(p)] = lbool(~sign(p))

\* m gives every variable a value True or False and makes a literal true in every
\* clause that was passed to addClause.
satisfiesAdded(m) ==
    /\ DOMAIN m = DOMAIN vardata
    /\ \A x \in DOMAIN m : m[x] \in {l_True, l_False}
    /\ \A c \in added : \E p \in c : litTrueIn(m, p)

\* Some total assignment of the variables satisfies every clause passed to addClause.
satisfiable ==
    \E m \in [DOMAIN vardata -> {l_True, l_False}] : satisfiesAdded(m)

returned(op, val) == pc = "idle" /\ ret = [op |-> op, val |-> val]

\* C1: whenever solve returns True, the model vector is total and satisfies every
\* clause that was passed to addClause.
C1_TrueModelSatisfies ==
    returned("solve", l_True) => satisfiesAdded(model)

\* The same for the first solve call alone.
C1_FirstTrueModelSatisfies ==
    (returned("solve", l_True) /\ nSolves = 1) => satisfiesAdded(model)

\* C2: if the first solve call returns False, no total assignment of the variables
\* satisfies all the clauses that were passed to addClause.
C2_FirstFalseIsUnsat ==
    (returned("solve", l_False) /\ nSolves = 1) => ~satisfiable

\* The first solve returned False after a search with conflicts: no addClause had
\* refuted the formula.
C2_SearchRefuted ==
    returned("solve", l_False) /\ nSolves = 1 /\ ok /\ conflicts >= 2 /\ Len(clauses) = 4

addClauseStep == nAdds' = nAdds + 1

\* The literals of the clause passed to the call that r records.
argLits(r) == SeqToSet(r.arg)

\* The literals of ls that are not false in the state before the call.
notFalse(ls) == {p \in ls : value(St, p) # l_False}

\* Enqueuing the unassigned literal p and propagating reaches a conflict.
unitConflict(p) ==
    /\ value(St, p) = l_Undef
    /\ propagate(uncheckedEnqueue(St, p, CRef_Undef)).confl # CRef_Undef

\* C4: addClause returns false exactly when ok was already false, or no literal of
\* the clause is left once the false ones are removed, or a single unassigned literal
\* is left and propagating it reaches a conflict; then ok is false.  Otherwise it
\* returns true and ok is true.
C4_AddClauseResult ==
    [][addClauseStep =>
         LET left == notFalse(argLits(ret'))
             refuted == \/ ~ok
                        \/ left = {}
                        \/ \E p \in left : left = {p} /\ unitConflict(p)
         IN /\ ret'.val = ~refuted
            /\ ok' = ret'.val]_vars

\* The third addClause, of a unit clause, returned false after two clauses had been
\* stored: the literal was enqueued and its propagation met a conflict.
C4_UnitConflict ==
    /\ nAdds = 3 /\ Len(clauses) = 2
    /\ ret.op = "addClause" /\ ret.val = FALSE /\ ~ok
    /\ \E p \in argLits(ret) : argLits(ret) = {p} /\ value(St, p) = l_True

\* A step that is a solve call.
solveStep == nSolves' = nSolves + 1

\* C5: once ok is false (an addClause has returned false) it stays false; every
\* solve call returns False at once, every addClause call returns false, and these
\* calls leave the trail, the assignment, the watch lists and the clause lists as
\* they are.
C5_OkLatched ==
    [][~ok =>
         /\ ~ok'
         /\ solveStep => ret' = [op |-> "solve", val |-> l_False] /\ pc' = "idle"
         /\ addClauseStep => ret'.val = FALSE
         /\ (solveStep \/ addClauseStep) =>
                UNCHANGED <<trail, trail_lim, qhead, assigns, watches, clauses,
                            learnts, ca>>]_vars

\* With ok false, an addClause of a clause that has an unassigned literal has returned
\* false after a solve call has returned False.
C5_CallsAfterLatch ==
    /\ ~ok /\ nSolves >= 1 /\ ret.op = "addClause" /\ ret.val = FALSE
    /\ \E p \in argLits(ret) : value(St, p) = l_Undef

\* The clauses in the clause lists that are not deleted.
storedClauses == {cr \in SeqToSet(clauses) \cup SeqToSet(learnts) : ca[cr].mark = 0}

\* Every literal of the clause is false.
allFalse(c) == \A i \in 1..Len(c.lits) : value(St, c.lits[i]) = l_False

\* One literal of the clause is unassigned and every other one is false.
unitUnderTrail(c) ==
    \E i \in 1..Len(c.lits) :
        /\ value(St, c.lits[i]) = l_Undef
        /\ \A k \in 1..Len(c.lits) : k # i => value(St, c.lits[k]) = l_False

propagationFixpoint ==
    /\ qhead = Len(trail)
    /\ \A cr \in storedClauses : ~allFalse(ca[cr]) /\ ~unitUnderTrail(ca[cr])

\* C6: after an addClause call that returned true, unit propagation is at a fixpoint
\* without conflict: qhead is the trail length and no stored clause has all its
\* literals false, or one literal unassigned and the others false.
C6_FixpointAfterAdd ==
    (ret.op = "addClause" /\ ret.val = TRUE /\ decisionLevel(St) = 0)
        => propagationFixpoint

\* The set of literals holds a literal and its negation.
tautology(ls) == \E p \in ls : Neg(p) \in ls

\* C7 as stated: addClause of a clause with a literal and its negation returns true
\* and leaves the clause list, the watch lists, the trail, the assignment and ok as
\* they are.
C7_TautologyReturnsTrue ==
    [][(addClauseStep /\ tautology(argLits(ret'))) =>
          /\ ret'.val = TRUE
          /\ UNCHANGED <<clauses, watches, trail, assigns, ok>>]_vars

\* C7, amended: such a call leaves the clause list, the watch lists, the trail, the
\* assignment and ok as they are; it returns true when ok is true, and false when ok
\* is false.
C7_TautologyDropped ==
    [][(addClauseStep /\ tautology(argLits(ret'))) =>
          /\ ret'.val = ok
          /\ UNCHANGED <<clauses, watches, trail, assigns, ok>>]_vars

\* With a clause stored and ok true, addClause of a clause of three different
\* literals, two of them complementary and none of them true, returned true.
C7_TautologyAdded ==
    /\ ret.op = "addClause" /\ ret.val = TRUE /\ ok
    /\ tautology(argLits(ret)) /\ Cardinality(argLits(ret)) = 3
    /\ \A p \in argLits(ret) : value(St, p) = l_Undef
    /\ Len(clauses) >= 1

\* The clause the call stored, if it stored one, has no literal twice and no literal
\* that was false before the call.
storedIsReduced ==
    clauses' # clauses =>
        LET c == ca'[clauses'[Len(clauses')]].lits
        IN /\ \A i, k \in 1..Len(c) : i # k => c[i] # c[k]
           /\ \A i \in 1..Len(c) : value(St, c[i]) # l_False

\* The call did what addClause_ does for the unit clause of p, and did not store it.
treatedAsUnit(p) ==
    LET U == addClause_(St, <<p>>)
    IN /\ ret'.val = U.r /\ ok' = U.S.ok
       /\ trail' = U.S.trail /\ assigns' = U.S.assigns /\ qhead' = U.S.qhead
       /\ watches' = U.S.watches /\ clauses' = clauses

\* The literal p has been enqueued at level 0 with no reason, and propagated.
enqueuedAndPropagated(p) ==
    /\ \E i \in 1..Len(trail') : trail'[i] = p
    /\ assigns'[var(p)] = lbool(~sign(p))
    /\ vardata'[var(p)] = mkVarData(CRef_Undef, 0)
    /\ qhead' = Len(trail')

\* C8 as stated: a stored clause has each literal once and none that was false; a
\* clause whose literals are all copies of one unassigned literal is enqueued and
\* propagated, not stored.
C8_CopiesEnqueued ==
    [][addClauseStep =>
          /\ storedIsReduced
          /\ \A p \in argLits(ret') :
                (argLits(ret') = {p} /\ value(St, p) = l_Undef) =>
                    treatedAsUnit(p) /\ enqueuedAndPropagated(p)]_vars

\* C8, amended: the same, the second part when ok is true; when ok is false the
\* call is treated as the unit clause is then, and nothing is enqueued.
C8_CopiesEnqueuedWhenOk ==
    [][addClauseStep =>
          /\ storedIsReduced
          /\ \A p \in argLits(ret') :
                (argLits(ret') = {p} /\ value(St, p) = l_Undef) =>
                    /\ treatedAsUnit(p)
                    /\ ok => enqueuedAndPropagated(p)
                    /\ ~ok => UNCHANGED <<trail, assigns, qhead, vardata>>]_vars

\* After one clause was stored, addClause of two or more copies of an unassigned
\* literal returned true: the literal is first on the trail, and its propagation
\* has put a second literal there.
C8_CopiesPropagated ==
    /\ nAdds = 2 /\ Len(clauses) = 1
    /\ ret.op = "addClause" /\ ret.val = TRUE /\ Len(ret.arg) >= 2
    /\ Len(trail) = 2 /\ argLits(ret) = {trail[1]} /\ qhead = 2

\* A solve call in progress comes to its end.
solveEnds == (pc # "idle") ~> (pc = "idle")

\* C9 as stated, for a solve call that has searched: when its search call returns
\* with the interrupt flag true, solve returns Undef, at decision level 0; and a solve
\* call in progress does return.
C9_InterruptedReturnsUndef ==
    /\ [][(pc = "returned" /\ asynch_interrupt) =>
            /\ pc' = "idle"
            /\ ret' = [op |-> "solve", val |-> l_Undef]
            /\ trail_lim' = <<>>]_vars
    /\ solveEnds

\* C9, amended: when the search call in progress returns with the interrupt flag
\* true, solve starts no further search call and returns what that search call
\* returned, at decision level 0: Undef if it ended in a restart, True or False if
\* it ended with a model or a refutation.  With ok false solve returns False at once.
C9_InterruptedReturnsStatus ==
    /\ [][(pc = "returned" /\ asynch_interrupt) =>
            /\ pc' = "idle"
            /\ ret' = [op |-> "solve", val |-> status]
            /\ trail_lim' = <<>>]_vars
    /\ [][(solveStep /\ asynch_interrupt /\ ~ok) =>
            /\ pc' = "idle"
            /\ ret' = [op |-> "solve", val |-> l_False]]_vars
    /\ solveEnds

\* An interrupted solve has returned Undef: its search had learnt a clause and
\* restarted, and the decision level is 0.
C9_InterruptedAtRestart ==
    /\ returned("solve", l_Undef) /\ asynch_interrupt
    /\ trail_lim = <<>> /\ Len(learnts) >= 1 /\ conflicts >= 2

\* C10: a solve call made with the conflict budget at 0 (conflict_budget = conflicts,
\* as setConfBudget(0) leaves it), on a formula that level-0 propagation has not
\* decided (ok true, a clause stored and a variable unassigned), returns Undef and
\* makes no decision.
C10_ZeroBudgetNoDecision ==
    (/\ pc = "idle" /\ ret.op = "solve"
     /\ atCall.conflict_budget = atCall.conflicts
     /\ atCall.ok /\ atCall.nAssigns < nVars(St) /\ clauses # <<>>)
        => (ret.val = l_Undef /\ decisions = atCall.decisions)
\* The variables of the literals on the trail.
trailVars == {var(trail[i]) : i \in 1..Len(trail)}

\* The decision level is 0: trail_lim is empty, every literal of the trail is of
\* level 0, and the assigned variables are those of the trail.
atLevelZero ==
    /\ trail_lim = <<>>
    /\ \A x \in trailVars : level(St, x) = 0
    /\ \A x \in DOMAIN assigns : (assigns[x] # l_Undef) <=> (x \in trailVars)

\* C11: whatever solve returns, when it has returned the decision level is 0:
\* trail_lim is empty, the trail holds level-0 literals only, and every variable that
\* is not on it is Undef; so it is in every state where addClause may be called.
C11_ReturnsAtLevelZero ==
    /\ (pc = "idle" /\ ret.op = "solve") => atLevelZero
    /\ pc = "idle" => atLevelZero

\* solve has returned True after a search that decided twice and met a conflict; a
\* variable the model gives a value is Undef again, and a literal is left on the trail.
C11_UndoneAfterModel ==
    /\ returned("solve", l_True) /\ conflicts >= 1 /\ trail # <<>>
    /\ \E x \in DOMAIN model : model[x] # l_Undef /\ assigns[x] = l_Undef

\* C12: with two variables made by newVar with its default argument and no clause,
\* solve returns True and the model gives both variables True.
C12_DefaultModelTrue ==
    (pc = "idle" /\ ret.op = "solve" /\ nSolves = 1 /\ nAdds = 0 /\ nVars(St) = 2)
        => /\ ret.val = l_True
           /\ DOMAIN model = {0, 1}
           /\ \A x \in DOMAIN model : model[x] = l_True

\* The number of watchers of the list ws whose cref is cr.
watchersOf(ws, cr) == Cardinality({j \in 1..Len(ws) : ws[j].cref = cr})

\* In the state S every clause that is stored and not deleted has one watcher in the
\* list of the negation of each of its first two literals, and none in another list.
watchInvariant(S) ==
    \A cr \in {x \in SeqToSet(S.clauses) \cup SeqToSet(S.learnts) : S.ca[x].mark = 0} :
        \A p \in DOMAIN S.watches :
            watchersOf(S.watches[p], cr) =
                IF p \in {Neg(S.ca[cr].lits[1]), Neg(S.ca[cr].lits[2])} THEN 1 ELSE 0

conflictIsFalse(P) ==
    P.confl # CRef_Undef =>
        /\ P.confl \in SeqToSet(P.clauses) \cup SeqToSet(P.learnts)
        /\ P.ca[P.confl].mark = 0
        /\ \A i \in 1..Len(P.ca[P.confl].lits) :
              value(P, P.ca[P.confl].lits[i]) = l_False

\* The literals that are unassigned, for which addClause_ may call propagate.
unassignedLits == {p \in DOMAIN watches : value(St, p) = l_Undef}

\* C15: whenever propagate returns a clause reference other than CRef_Undef, in
\* search or in addClause_ after a unit clause is enqueued, every literal of that
\* clause is false and the clause is stored and not deleted.
C15_ConflictClauseFalse ==
    /\ pc = "search" => conflictIsFalse(propagate(St))
    /\ (pc = "idle" /\ ok) =>
          \A p \in unassignedLits :
              conflictIsFalse(propagate(uncheckedEnqueue(St, p, CRef_Undef)))

\* The propagate call the search makes next, at a decision level of 2 or more,
\* returns a clause of three literals as the conflict.
C15_TernaryClauseConflicts ==
    /\ pc = "search" /\ Len(trail_lim) >= 2
    /\ propagate(St).confl # CRef_Undef
    /\ Len(ca[propagate(St).confl].lits) = 3

\* In the state P that propagate returned with CRef_Undef, every stored clause has
\* its two watched literals not false, or one of them true.
watchedNotFalse(P) ==
    P.confl = CRef_Undef =>
        \A cr \in {x \in SeqToSet(P.clauses) \cup SeqToSet(P.learnts) : P.ca[x].mark = 0} :
            LET c == P.ca[cr].lits
            IN \/ value(P, c[1]) # l_False /\ value(P, c[2]) # l_False
               \/ value(P, c[1]) = l_True
               \/ value(P, c[2]) = l_True

\* C16: whenever propagate returns CRef_Undef, every stored clause has both watched
\* literals not false, or a watched literal that is true.
C16_WatchedNotFalse ==
    /\ pc = "search" => watchedNotFalse(propagate(St))
    /\ (pc = "idle" /\ ok) =>
          \A p \in unassignedLits :
              watchedNotFalse(propagate(uncheckedEnqueue(St, p, CRef_Undef)))

\* No search call of this solver has returned False: not the last one, whose value
\* status holds, and none before the solve call under way or last made.
unrefuted == status # l_False /\ ~atCall.refuted

watchedNotFalseOrSatisfied(P) ==
    P.confl = CRef_Undef =>
        \A cr \in {x \in SeqToSet(P.clauses) \cup SeqToSet(P.learnts) : P.ca[x].mark = 0} :
            LET c == P.ca[cr].lits
            IN \/ value(P, c[1]) # l_False /\ value(P, c[2]) # l_False
               \/ \E k \in 1..Len(c) : value(P, c[k]) = l_True

trailIndex(x) == CHOOSE i \in 1..Len(trail) : var(trail[i]) = x

\* The variables on the trail that have a reason clause.
impliedVars == {x \in trailVars : reason(St, x) # CRef_Undef}

C18_ReasonsEarlier ==
    \A x \in impliedVars :
        LET c == ca[reason(St, x)].lits
        IN \A k \in 2..Len(c) :
              \E i \in 1..(trailIndex(x) - 1) : trail[i] = Neg(c[k])

\* After a backjump the asserting literal of a learnt clause of two or more literals
\* is the last of the trail, with that clause as its reason, at a level above 0.
C18_AssertingLiteral ==
    /\ pc = "search" /\ trail_lim # <<>> /\ qhead < Len(trail)
    /\ var(trail[Len(trail)]) \in impliedVars
    /\ reason(St, var(trail[Len(trail)])) \in SeqToSet(learnts)

\* C20: for every index i of the trail (from 0), the level stored for the variable of
\* trail[i] is the number of entries of trail_lim that are at most i.
C20_LevelOfTrail ==
    \A i \in 1..Len(trail) :
        level(St, var(trail[i])) =
            Cardinality({j \in 1..Len(trail_lim) : trail_lim[j] <= i - 1})

\* The trail holds a learnt unit clause's literal at level 0, and above it, at level
\* 2, a literal with a reason.
C20_LevelsOnTrail ==
    /\ Len(trail_lim) = 2 /\ trail_lim[1] >= 1 /\ conflicts >= 1
    /\ \E x \in impliedVars : level(St, x) = 2

\* A step of search that calls reduceDB.
reduceDBStep == nb_reducedb' = nb_reducedb + 1

\* The learnt clause that was the reason of x before the call is, after it, still the
\* reason of x (under the reference it has then), in learnts, not marked as deleted,
\* and attached: watched once for each of its first two literals.
lockedKept(P, x) ==
    LET cr == vardata'[x].reason
    IN /\ cr \in 1..Len(ca')
       /\ ca'[cr].lits = P.ca[reason(P, x)].lits
       /\ ca'[cr].mark = 0
       /\ \E i \in 1..Len(learnts') : learnts'[i] = cr
       /\ watchersOf(watches'[Neg(ca'[cr].lits[1])], cr) = 1
       /\ watchersOf(watches'[Neg(ca'[cr].lits[2])], cr) = 1

\* C19: a call of reduceDB, at any decision level, removes no locked clause: every
\* learnt clause that is the reason of a variable assigned at the call is still in
\* learnts, unmarked and attached after it, and no assigned variable is left with a
\* reason that refers to a freed clause.
C19_LockedKept ==
    [][reduceDBStep =>
         LET P == propagate(St)
         IN /\ \A i \in 1..Len(P.trail) :
                  (reason(P, var(P.trail[i])) # CRef_Undef
                      /\ P.ca[reason(P, var(P.trail[i]))].learnt)
                     => lockedKept(P, var(P.trail[i]))
            /\ \A i \in 1..Len(trail') :
                  vardata'[var(trail'[i])].reason # CRef_Undef
                     => /\ vardata'[var(trail'[i])].reason \in 1..Len(ca')
                        /\ ca'[vardata'[var(trail'[i])].reason].mark = 0]_vars

\* reduceDB has been called above decision level 0 and has removed a learnt clause,
\* and a learnt clause of three literals or more is the reason of an assigned variable.
C19_RemovedAndKept ==
    /\ pc = "search" /\ nb_reducedb = 1 /\ trail_lim # <<>>
    /\ Len(learnts) < conflicts - Cardinality({x \in trailVars : level(St, x) = 0})
    /\ \E x \in impliedVars :
          /\ reason(St, x) \in SeqToSet(learnts)
          /\ Len(ca[reason(St, x)].lits) >= 3

keptLength(P, L) == Cardinality({i \in 1..Len(P.trail) : level(P, var(P.trail[i])) <= L})

\* C is P after cancelUntil(L): the decision level is L, the trail is the literals of
\* levels at most L, which are a prefix of the trail of P, the variables of higher
\* levels are Undef, every other variable has the value it had, and qhead is the length
\* of the trail.
cancelledTo(P, C, L) ==
    /\ decisionLevel(C) = L
    /\ C.trail = SubSeq(P.trail, 1, keptLength(P, L))
    /\ \A i \in 1..Len(P.trail) : (i <= keptLength(P, L)) = (level(P, var(P.trail[i])) <= L)
    /\ \A x \in DOMAIN P.assigns :
          C.assigns[x] = IF P.assigns[x] # l_Undef /\ level(P, x) > L THEN l_Undef
                         ELSE P.assigns[x]
    /\ C.qhead = Len(C.trail)

\* C21: cancelUntil(L), called with L at most the decision level where search and
\* solve_ call it (after propagate in search, for every such L; after search has
\* returned in solve_), leaves the decision level L, the trail of the levels at most L,
\* the variables of higher levels Undef, the other assignments unchanged and qhead at
\* the end of the trail.
C21_CancelUntil ==
    /\ pc = "search" =>
          \A L \in 0..decisionLevel(St) :
             cancelledTo(propagate(St), cancelUntil(propagate(St), L), L)
    /\ pc = "returned" =>
          \A L \in 0..decisionLevel(St) : cancelledTo(St, cancelUntil(St, L), L)

\* propagate has met a conflict at level 2 or above, and the clause that analyze learns
\* from it sends search back to a level that is not 0: cancelUntil removes a part of
\* the trail and keeps a part of it.
C21_BackjumpAboveZero ==
    /\ pc = "search"
    /\ propagate(St).confl # CRef_Undef
    /\ decisionLevel(St) >= 2
    /\ analyze(propagate(St), propagate(St).confl).out_btlevel >= 1

\* The trail that cancelUntil finds when the step calls it: in search, the trail that
\* propagate has left.
trailAtCancel == IF pc = "search" THEN propagate(St).trail ELSE trail

\* The places of t whose literal the step removes.
removedPlaces(t) == {i \in 1..Len(t) : i > Len(trail') \/ trail'[i] # t[i]}

\* In the step, the polarity of the variable of each literal of t that leaves the trail
\* becomes the sign of that literal, and no other polarity changes.
polaritySaved(t) ==
    /\ \A i \in removedPlaces(t) : polarity'[var(t[i])] = sign(t[i])
    /\ \A x \in DOMAIN polarity :
          (\A i \in removedPlaces(t) : var(t[i]) # x) => polarity'[x] = polarity[x]

\* The step opens a decision level: pickBranchLit has returned a literal.
decisionStep == Len(trail_lim') = Len(trail_lim) + 1

\* C22: phase saving.  In every step, the polarity of a variable whose literal leaves
\* the trail (the literals that propagate has put on it in the step included) becomes the sign of that literal, the polarity of every other variable
\* stays what it was (propagate and analyze do not write it), and the literal of a
\* decision has the polarity of its variable as its sign: so a decision on a variable
\* that cancelUntil has unassigned has the sign of the literal removed last.
C22_PhaseSaving ==
    [][/\ polaritySaved(trailAtCancel)
       /\ decisionStep =>
             sign(trail'[trail_lim'[Len(trail_lim')] + 1])
                = polarity[var(trail'[trail_lim'[Len(trail_lim')] + 1])]]_vars

\* A decision on a positive literal: newVar gives every variable the negative polarity,
\* so the variable took the value true by propagation and cancelUntil has saved it.
C22_SavedPhaseDecided ==
    /\ pc = "search"
    /\ \E k \in 1..Len(trail_lim) :
          /\ trail_lim[k] < Len(trail)
          /\ ~sign(trail[trail_lim[k] + 1])
          /\ reason(St, var(trail[trail_lim[k] + 1])) = CRef_Undef

\* The greatest level in P of the literals of c after the first, 0 when there is none.
secondLevel(P, c) ==
    IF Len(c) = 1 THEN 0
    ELSE CHOOSE l \in 0..decisionLevel(P) :
           /\ \E k \in 2..Len(c) : level(P, var(c[k])) = l
           /\ \A k \in 2..Len(c) : level(P, var(c[k])) <= l

\* The clause c and the level bt that analyze returns for a conflict in P are an
\* asserting clause and its backjump level; C is the state after cancelUntil(bt).
asserting(P, c, bt, C) ==
    /\ Len(c) >= 1
    /\ \E i \in 1..Len(P.trail) : P.trail[i] = Neg(c[1])
    /\ level(P, var(c[1])) = decisionLevel(P)
    /\ \A k \in 2..Len(c) : level(P, var(c[k])) < decisionLevel(P)
    /\ \A j, k \in 1..Len(c) : var(c[j]) = var(c[k]) => j = k
    /\ \A k \in 1..Len(c) : value(P, c[k]) = l_False
    /\ \A k \in 2..Len(c) : level(P, var(c[k])) \in 0..decisionLevel(P)
    /\ bt = secondLevel(P, c)
    /\ Len(c) >= 2 => level(P, var(c[2])) = bt
    /\ value(C, c[1]) = l_Undef
    /\ \A k \in 2..Len(c) : value(C, c[k]) = l_False

assertingResult(P, A) ==
    asserting(P, A.out_learnt, A.out_btlevel, cancelUntil(A.S, A.out_btlevel))

\* C23: for every conflict that propagate returns at a decision level of 1 or more,
\* the clause of analyze is asserting: its first literal is the negation of a literal
\* of the trail, of the conflict level, and the only one of that level; no variable is
\* twice in it; all its literals are false; out_btlevel is the greatest level of the
\* other literals (0 when there is none) and the second literal has it; after
\* cancelUntil(out_btlevel) the first literal is Undef and the others are false.
C23_Asserting ==
    (pc = "search" /\ propagate(St).confl # CRef_Undef /\ decisionLevel(St) >= 1)
       => assertingResult(propagate(St), analyze(propagate(St), propagate(St).confl))

\* The clause of A has three literals or more, and those after the first are not all
\* of one level: the backjump level is above 0 and a literal is of a level below it.
lowerLevels(P, A) ==
    /\ Len(A.out_learnt) >= 3
    /\ A.out_btlevel >= 1
    /\ \E k \in 3..Len(A.out_learnt) : level(P, var(A.out_learnt[k])) < A.out_btlevel

\* A conflict at level 2 or above whose learnt clause has three literals or more, of
\* three levels: analyze has to find the greatest level below that of the conflict.
C23_ThreeLevels ==
    /\ pc = "search" /\ propagate(St).confl # CRef_Undef /\ decisionLevel(St) >= 2
    /\ lowerLevels(propagate(St), analyze(propagate(St), propagate(St).confl))

\* The number of distinct decision levels among the literals of lits.
distinctLevels(lits) == Cardinality({level(St, var(lits[i])) : i \in 1..Len(lits)})

\* C24: every call of computeLBD, in any sequence of calls, returns the number of
\* distinct decision levels among the literals of its clause.
C24_DistinctLevels == ret.op = "computeLBD" => ret.val = distinctLevels(ret.arg)

\* In P, the learnt clause x is worse than the learnt clause y: x is not binary and y
\* is, or neither is binary and x has the higher LBD, or the same LBD and the lower
\* activity.
worse(P, x, y) ==
    \/ Len(P.ca[x].lits) > 2 /\ Len(P.ca[y].lits) = 2
    \/ /\ Len(P.ca[x].lits) > 2 /\ Len(P.ca[y].lits) > 2
       /\ \/ P.ca[x].lbd > P.ca[y].lbd
          \/ P.ca[x].lbd = P.ca[y].lbd /\ activityLess(P.ca[x].activity, P.ca[y].activity)

\* ls is the learnts of P sorted worst first.
sortedWorstFirst(P, ls) ==
    /\ Len(ls) = Len(P.learnts)
    /\ SeqToSet(ls) = SeqToSet(P.learnts)
    /\ \A i, j \in 1..Len(ls) : i < j => ~worse(P, ls[j], ls[i])

\* The places of ls whose clause has more than two literals, is not locked in P and
\* stands in the first half of ls.
toRemove(P, ls) ==
    {i \in 1..Len(ls) : /\ Len(P.ca[ls[i]].lits) > 2
                        /\ ~locked(P, ls[i])
                        /\ i - 1 < Len(ls) \div 2}

\* The clauses of ls at the places that are not in gone, in the order of ls.
RECURSIVE keptOf(_, _, _)
keptOf(ls, gone, i) ==
    IF i > Len(ls) THEN <<>>
    ELSE (IF i \in gone THEN <<>> ELSE <<ls[i]>>) \o keptOf(ls, gone, i + 1)

\* R is P after the loop of reduceDB over ls, and G is P after the whole of reduceDB:
\* the clauses removed are those of toRemove, exactly; no binary clause is among them
\* and they are at most half of the list; the clauses kept are in learnts in the order
\* of ls, also after the garbage collection.
reducedExactly(P, ls, R, G) ==
    /\ sortedWorstFirst(P, ls)
    /\ \A i \in 1..Len(ls) : (R.ca[ls[i]].mark = 1) = (i \in toRemove(P, ls))
    /\ \A i \in 1..Len(ls) : Len(P.ca[ls[i]].lits) = 2 => R.ca[ls[i]].mark = 0
    /\ Cardinality(toRemove(P, ls)) <= Len(ls) \div 2
    /\ R.learnts = keptOf(ls, toRemove(P, ls), 1)
    /\ Len(G.learnts) = Len(R.learnts)
    /\ \A k \in 1..Len(G.learnts) :
          /\ G.ca[G.learnts[k]].lits = P.ca[R.learnts[k]].lits
          /\ G.ca[G.learnts[k]].mark = 0

reduceDBExact(P) ==
    reducedExactly(P, sortLearnts(P, P.learnts),
                   reduceDBLoop(P, sortLearnts(P, P.learnts), 1, <<>>), reduceDB(P))

\* The iteration of search in the state calls reduceDB.
callsReduceDB ==
    /\ pc = "search"
    /\ propagate(St).confl = CRef_Undef
    /\ \E o \in searchIteration(St) : o.S.nb_reducedb = nb_reducedb + 1

halfRemoved(P, ls) ==
    /\ toRemove(P, ls) # {}
    /\ \E i \in 1..Len(ls) :
          /\ Len(P.ca[ls[i]].lits) > 2
          /\ ~locked(P, ls[i])
          /\ i \notin toRemove(P, ls)

restartStep == pc = "search" /\ pc' = "returned" /\ status' = l_Undef

\* P, the state after propagate, allows a restart: there is no conflict, every literal
\* of the trail is propagated, the LBD queue holds as many values as its capacity, and
\* 0.8 times their mean is greater than sumLBD / conflicts.
restartAllowed(P) ==
    /\ P.confl = CRef_Undef
    /\ P.qhead = Len(P.trail)
    /\ Len(P.lbdQueue) = LbdQueueSize
    /\ P.conflicts > 0
    /\ 8 * SumSeq(P.lbdQueue) * P.conflicts > 10 * Len(P.lbdQueue) * P.sumLBD

liveWatchers(S, p) == SelectSeq(S.watches[p], LAMBDA w : S.ca[w.cref].mark # 1)

\* The reference new of G designates the clause that old designates in S.
sameClause(S, old, G, new) ==
    /\ old \in 1..Len(S.ca)
    /\ new \in 1..Len(G.ca)
    /\ S.ca[old].mark = 0
    /\ G.ca[new] = S.ca[old]

\* The references S holds, each with the reference G holds in the same place.
heldPairs(S, G) ==
    {<<S.learnts[k], G.learnts[k]>> : k \in 1..Len(S.learnts)}
    \cup {<<S.clauses[k], G.clauses[k]>> : k \in 1..Len(S.clauses)}
    \cup {<<reason(S, var(S.trail[i])), reason(G, var(S.trail[i]))>> :
             i \in {j \in 1..Len(S.trail) : reason(S, var(S.trail[j])) # CRef_Undef}}
    \cup UNION {{<<liveWatchers(S, p)[j].cref, G.watches[p][j].cref>> :
                    j \in 1..Len(G.watches[p])} : p \in DOMAIN S.watches}

\* G is S after a garbage collection that has lost nothing.
databasePreserved(S, G) ==
    /\ Len(G.learnts) = Len(S.learnts)
    /\ Len(G.clauses) = Len(S.clauses)
    /\ G.trail = S.trail
    /\ \A p \in DOMAIN S.watches :
          /\ Len(G.watches[p]) = Len(liveWatchers(S, p))
          /\ \A j \in 1..Len(G.watches[p]) :
                G.watches[p][j].blocker = liveWatchers(S, p)[j].blocker
    /\ \A i \in 1..Len(S.trail) :
          (reason(S, var(S.trail[i])) = CRef_Undef)
             = (reason(G, var(S.trail[i])) = CRef_Undef)
    /\ \A pr \in heldPairs(S, G) : sameClause(S, pr[1], G, pr[2])
    /\ \A a, b \in heldPairs(S, G) : a[1] = b[1] => a[2] = b[2]
    /\ \A k \in 1..Len(G.ca) : G.ca[k].mark = 0
    /\ caWasted(G) = 0

\* R is the state in which reduceDB calls checkGarbage, P being the state in which
\* search calls reduceDB.
beforeCheckGarbage(P) ==
    reduceDBLoop([P EXCEPT !.nb_reducedb = @ + 1],
                 sortLearnts(P, P.learnts), 1, <<>>)

\* The value of the field garbage_frac in the run.
garbage_frac == bound.garbage_frac

wastedAboveFraction(R) ==
    caWasted(R) * garbage_frac[2] > caSize(R) * garbage_frac[1]

checkGarbageExact(R) ==
    /\ databasePreserved(R, garbageCollect(R))
    /\ IF wastedAboveFraction(R)
       THEN /\ checkGarbage(R) = garbageCollect(R)
            /\ Len(checkGarbage(R).ca) < Len(R.ca)
       ELSE checkGarbage(R) = R

\* C27: checkGarbage collects the arena when the wasted memory is above garbage_frac
\* of its size and leaves the solver as it is otherwise; a collection, in whatever
\* state the solver is, keeps learnts and clauses in length and order, gives every
\* watcher of a clause not deleted, every reason of a variable of the trail and every
\* entry of learnts and clauses a reference to a clause with the same literals, learnt
\* flag and LBD, gives equal references equal references, and leaves no deleted
\* clause in the arena.
C27_GarbageCollect ==
    /\ databasePreserved(St, garbageCollect(St))
    /\ callsReduceDB => checkGarbageExact(beforeCheckGarbage(propagate(St)))

\* reduceDB collects an arena in which a clause that is the reason of a variable of the
\* trail changes its reference.
C27_ReasonRelocated ==
    /\ callsReduceDB
    /\ wastedAboveFraction(beforeCheckGarbage(propagate(St)))
    /\ \E pr \in heldPairs(beforeCheckGarbage(propagate(St)),
                           garbageCollect(beforeCheckGarbage(propagate(St)))) :
          /\ pr[1] # pr[2]
          /\ \E i \in 1..Len(propagate(St).trail) :
                reason(beforeCheckGarbage(propagate(St)),
                       var(propagate(St).trail[i])) = pr[1]


\* The x-th term of the Luby sequence 1, 1, 2, 1, 1, 2, 4, ..., counting from 0: with k
\* such that 2^(k-1) <= x + 1 <= 2^k - 1, the term is 2^(k-1) when x + 1 = 2^k - 1 and
\* the term of index x - (2^(k-1) - 1) otherwise.
lubyRank(x) == CHOOSE k \in 1..IntBits : 2 ^ (k - 1) <= x + 1 /\ x + 1 <= 2 ^ k - 1

RECURSIVE lubyTerm(_)
lubyTerm(x) ==
    IF x + 1 = 2 ^ lubyRank(x) - 1
    THEN 2 ^ (lubyRank(x) - 1)
    ELSE lubyTerm(x - (2 ^ (lubyRank(x) - 1) - 1))

\* C29: a call luby(2, x) with x >= 0 returns the x-th term of the Luby sequence.
C29_Luby == ret.op = "luby" => ret.end = "return" /\ ret.val = lubyTerm(ret.arg)

\* The same for the calls in which x + 1 does not overflow.
C29_LubyBelowIntMax ==
    (ret.op = "luby" /\ ret.arg < INT_MAX)
       => ret.end = "return" /\ ret.val = lubyTerm(ret.arg)

\* A call whose index is neither at the end of a subsequence nor in the first half of
\* the recursion: luby(2, 13) = 4.
C29_LubyInner == ret.op = "luby" /\ ret.arg = 13 /\ ret.val = 4


\* C28: a call of search handles nof_conflicts conflicts at most: the conflicts it has
\* counted since it was called never exceed its argument.
C28_AtMostNofConflicts ==
    pc \in {"search", "returned"} => nbConflictsInCurrentRun <= nof_conflicts


\* C30: a call of solve made just after a call of solve that returned False, with no
\* other call in between, returns False too.
C30_StableFalse ==
    (pc = "idle" /\ ret.op = "solve" /\ atCall.afterFalse) => ret.val = l_False


\* m makes a literal of the clause of reference cr true.
satisfiesClause(m, cr) == \E j \in 1..Len(ca[cr].lits) : litTrueIn(m, ca[cr].lits[j])

\* m makes true every clause of learnts and every literal the trail holds at level 0.
satisfiesLearnt(m) ==
    /\ \A k \in 1..Len(learnts) : satisfiesClause(m, learnts[k])
    /\ \A i \in 1..Len(trail) : level(St, var(trail[i])) = 0 => litTrueIn(m, trail[i])

\* C31: every total assignment that satisfies the clauses passed to addClause
\* satisfies every clause of learnts and every literal of level 0 of the trail, the
\* unit learnt clauses among them.
C31_LearntsImplied ==
    \A m \in [DOMAIN vardata -> {l_True, l_False}] : satisfiesAdded(m) => satisfiesLearnt(m)

\* A satisfiable formula on which search has learnt a clause of two literals or more
\* and a unit clause, enqueued at level 0 without a reason.
C31_LearntOnSatisfiable ==
    /\ satisfiable
    /\ Len(learnts) >= 1
    /\ \E i \in 1..Len(trail) :
          /\ level(St, var(trail[i])) = 0
          /\ reason(St, var(trail[i])) = CRef_Undef
          /\ \A c \in added : Cardinality(c) > 1


\* In the state P that propagate returned with CRef_Undef, no stored clause has all
\* its literals false, and none has one literal unassigned and all the others false.
propagateComplete(P) ==
    P.confl = CRef_Undef =>
        \A cr \in {x \in SeqToSet(P.clauses) \cup SeqToSet(P.learnts) : P.ca[x].mark = 0} :
            LET c == P.ca[cr].lits
                open == {k \in 1..Len(c) : value(P, c[k]) # l_False}
            IN /\ open # {}
               /\ Cardinality(open) = 1 => \E k \in open : value(P, c[k]) = l_True

\* C32: whenever propagate returns CRef_Undef, in search or called on a literal
\* enqueued at level 0, no stored clause is falsified and no stored clause is unit.
C32_PropagateComplete ==
    /\ pc = "search" => propagateComplete(propagate(St))
    /\ (pc = "idle" /\ ok) =>
          \A p \in unassignedLits :
              propagateComplete(propagate(uncheckedEnqueue(St, p, CRef_Undef)))

\* The same on a solver on which no search has returned False.
C32_PropagateCompleteUnrefuted == unrefuted => C32_PropagateComplete


\* C33: no assertion has failed, that of uncheckedEnqueue (the literal enqueued is
\* unassigned) among them; no variable is twice on the trail, every literal of the
\* trail is true, and the trail is no longer than the number of variables.
C33_EnqueueUnassigned ==
    /\ ~err
    /\ \A i, j \in 1..Len(trail) : var(trail[i]) = var(trail[j]) => i = j
    /\ \A i \in 1..Len(trail) : value(St, trail[i]) = l_True
    /\ Len(trail) <= nVars(St)

\* Every variable is on the trail, the last literal being the asserting literal of a
\* learnt clause enqueued by search after a backjump.
C33_FullTrail ==
    /\ pc = "search" /\ Len(trail) = nVars(St) /\ nVars(St) = MaxVars
    /\ conflicts > 0 /\ trail_lim # <<>>
    /\ reason(St, var(trail[Len(trail)])) \in SeqToSet(learnts)


\* Every unassigned variable of S is in the order heap.
unassignedInHeap(S) == \A x \in DOMAIN S.assigns : S.assigns[x] = l_Undef => inHeap(S, x)

\* C34: in every state between two steps every unassigned variable is in the order
\* heap; a step of search that finds no decision variable and returns True leaves every
\* variable assigned; the model of a solve that has returned True holds no Undef.
C34_UnassignedInHeap ==
    /\ unassignedInHeap(St)
    /\ pc = "search" =>
          \A o \in searchIteration(St) :
              o.r = l_True => \A x \in DOMAIN o.S.assigns : o.S.assigns[x] # l_Undef
    /\ returned("solve", l_True) =>
          /\ DOMAIN model = DOMAIN vardata
          /\ \A x \in DOMAIN model : model[x] # l_Undef

\* After a backjump that has unassigned two variables or more, the heap holds them and
\* the search goes on; a variable that is assigned is not in the heap.
C34_ReinsertedAfterBackjump ==
    /\ pc = "search" /\ conflicts > 0 /\ qhead < Len(trail)
    /\ Cardinality({x \in DOMAIN assigns : assigns[x] = l_Undef}) >= 2
    /\ \E x \in DOMAIN assigns : assigns[x] # l_Undef /\ ~inHeap(St, x)


\* In S every watcher of a clause marked deleted is in a smudged list, and cleanAll
\* leaves no watcher of such a clause.
noDeletedWatched(S) ==
    /\ \A p \in DOMAIN S.watches : \A j \in 1..Len(S.watches[p]) :
          S.ca[S.watches[p][j].cref].mark = 1 => p \in S.dirty
    /\ \A p \in DOMAIN S.watches : \A j \in 1..Len(cleanAll(S).watches[p]) :
          S.ca[cleanAll(S).watches[p][j].cref].mark = 0

\* C35: in every state, and in the state in which reduceDB calls checkGarbage, the
\* watchers of deleted clauses are all in smudged lists, so that the cleanAll of
\* propagate and of relocAll removes them: the lists propagate reads hold no deleted
\* clause, and the arena after a collection has none.
C35_NoDeletedWatched ==
    /\ noDeletedWatched(St)
    /\ \A k \in 1..Len(garbageCollect(St).ca) : garbageCollect(St).ca[k].mark = 0
    /\ callsReduceDB =>
          /\ noDeletedWatched(beforeCheckGarbage(propagate(St)))
          /\ \A k \in 1..Len(reduceDB(propagate(St)).ca) :
                reduceDB(propagate(St)).ca[k].mark = 1
                   => ~wastedAboveFraction(beforeCheckGarbage(propagate(St)))

\* A search is about to call propagate with a deleted clause still in the arena and its
\* two watchers still in their lists, both smudged.
C35_DeletedStillWatched ==
    /\ pc = "search"
    /\ \E cr \in 1..Len(ca) :
          /\ ca[cr].mark = 1
          /\ \A q \in {Neg(ca[cr].lits[1]), Neg(ca[cr].lits[2])} :
                /\ q \in dirty
                /\ \E j \in 1..Len(watches[q]) : watches[q][j].cref = cr


\* seen is 0 for every variable of S.
seenClear(S) == \A x \in DOMAIN S.seen : S.seen[x] = 0

\* search is about to call analyze: propagate returns a conflict above level 0.
callsAnalyze == pc = "search" /\ propagate(St).confl # CRef_Undef /\ trail_lim # <<>>

\* C36: seen is all zero in every state between two steps, so whenever analyze is
\* entered, and in the state analyze returns.
C36_SeenClear ==
    /\ seenClear(St)
    /\ callsAnalyze =>
          /\ seenClear(propagate(St))
          /\ seenClear(analyze(propagate(St), propagate(St).confl).S)

\* analyze is called and returns a clause of three literals: it has marked variables
\* of lower levels, cleared in its final loop, and one variable or more of the current
\* level, cleared when it was resolved on.
C36_MarkedAndCleared ==
    /\ callsAnalyze
    /\ Len(analyze(propagate(St), propagate(St).confl).out_learnt) >= 3
    /\ \E i \in 1..Len(propagate(St).trail) :
          /\ level(propagate(St), var(propagate(St).trail[i])) = Len(trail_lim)
          /\ reason(propagate(St), var(propagate(St).trail[i])) # CRef_Undef


\* The clause analyze returns when search calls it in the state of now.
learntNow == analyze(propagate(St), propagate(St).confl).out_learnt

\* C37: levelTagged has one entry for each variable, of indices 0 .. nVars - 1; a
\* conflict occurs at a decision level below nVars, and every literal of the clause
\* analyze gives to computeLBD has a level that is an index of levelTagged.
C37_LevelInRange ==
    /\ DOMAIN levelTagged = 0..(nVars(St) - 1)
    /\ (pc = "search" /\ propagate(St).confl # CRef_Undef) => Len(trail_lim) < nVars(St)
    /\ callsAnalyze =>
          \A j \in 1..Len(learntNow) :
              /\ level(propagate(St), var(learntNow[j])) < nVars(St)
              /\ level(propagate(St), var(learntNow[j])) \in DOMAIN levelTagged

\* analyze is called at the greatest level a conflict can have, nVars - 1, and the
\* asserting literal of its clause has that level: computeLBD reads the last entry of
\* levelTagged.
C37_LastEntry ==
    /\ callsAnalyze /\ nVars(St) = MaxVars
    /\ Len(trail_lim) = nVars(St) - 1
    /\ level(propagate(St), var(learntNow[1])) = nVars(St) - 1

====
